---- MODULE Spec2Model ----
(***************************************************************************)
(* Canonical MIDI map -> Ardour MIDI map translation pipeline:             *)
(*   CanonicalMapParser (yaml-parser.ts) and its zod schema (schema.ts),   *)
(*   convertToArdourBinding / convertCanonicalToArdour / generateArdourMaps*)
(*   (generate-ardour-maps.ts), MidiMapBuilder, ArdourXMLSerializer.       *)
(*                                                                         *)
(* JavaScript strings are sequences of one-character strings, so that      *)
(* includes(), toLowerCase(), template literals and escapeXML() are        *)
(* computed character by character.  An optional value (a property that    *)
(* may be undefined) is a sequence of length 0 or 1.                       *)
(***************************************************************************)
EXTENDS Integers, Sequences, FiniteSets, TLC

VARIABLES
    mapping,        \* argument of convertToArdourBinding, or of convertControlToArdourBinding
    ardourBinding,  \* its return value, once called
    heap,           \* JS arrays of bindings, by reference
    this,           \* the MidiMapBuilder: name, version, bindings (a reference)
    built,          \* the maps build() has returned, in call order
    count,          \* last return value of getBindingCount()
    nops,           \* number of builder calls made so far
    job,            \* one conversion run: entry point, controller key, canonical maps
    pc,             \* position of the conversion run
    midiMap,        \* argument of serializeMidiMap
    xml,            \* its return value, as the lines joined by newline
    content,        \* text handed to parseFromYAML / parseFromJSON
    parsed,         \* their return value
    source          \* the canonical map handed to serializeToYAML / serializeToJSON

vars == <<mapping, ardourBinding, heap, this, built, count, nops, job, pc,
          midiMap, xml, content, parsed, source>>

----------------------------------------------------------------------------
(* Optional values *)

None == <<>>

Some(x) == <<x>>

IsSet(o) == o # <<>>

Get(o) == o[1]

----------------------------------------------------------------------------
(* Strings *)

UpperChars == <<"A", "B", "C", "D", "E", "F", "G", "H", "I", "J", "K", "L", "M", "N", "O", "P", "Q", "R", "S", "T", "U", "V", "W", "X", "Y", "Z">>

LowerChars == <<"a", "b", "c", "d", "e", "f", "g", "h", "i", "j", "k", "l", "m", "n", "o", "p", "q", "r", "s", "t", "u", "v", "w", "x", "y", "z">>

\* String.prototype.toLowerCase
toLowerCase(s) ==
    [i \in 1..Len(s) |->
        IF \E k \in 1..Len(UpperChars) : UpperChars[k] = s[i]
        THEN LowerChars[CHOOSE k \in 1..Len(UpperChars) : UpperChars[k] = s[i]]
        ELSE s[i]]

\* String.prototype.includes
includes(s, sub) ==
    \E i \in 0..(Len(s) - Len(sub)) : SubSeq(s, i + 1, i + Len(sub)) = sub

\* Array.prototype.join over strings
RECURSIVE join(_, _)
join(parts, sep) ==
    IF parts = <<>> THEN <<>>
    ELSE IF Len(parts) = 1 THEN parts[1]
    ELSE parts[1] \o sep \o join(Tail(parts), sep)

Digits == <<"0", "1", "2", "3", "4", "5", "6", "7", "8", "9">>

\* Number -> decimal text, as a template literal renders a non-negative integer
RECURSIVE numberToString(_)
numberToString(n) ==
    IF n < 10 THEN <<Digits[n + 1]>>
    ELSE numberToString(n \div 10) \o <<Digits[(n % 10) + 1]>>

----------------------------------------------------------------------------
(* convertToArdourBinding (generate-ardour-maps.ts) *)

\* the script's ArdourBinding: { function?: string; uri?: string }
Ref(f, u) == [function |-> f, uri |-> u]

Fn(name) == Ref(Some(name), None)

Uri(path) == Ref(None, Some(path))

parameterUri_Trimmed(paramId) ==
    <<"/", "r", "o", "u", "t", "e", "/", "p", "l", "u", "g", "i", "n", "/", "p", "a", "r", "a", "m", "e", "t", "e", "r", " ", "S", "1", " ", "1", " ">> \o SelectSeq(paramId, LAMBDA c : c # " ")

\* `/route/plugin/parameter S1 1 ${paramId}`
parameterUri(paramId) == <<"/", "r", "o", "u", "t", "e", "/", "p", "l", "u", "g", "i", "n", "/", "p", "a", "r", "a", "m", "e", "t", "e", "r", " ", "S", "1", " ", "1", " ">> \o paramId

\* category.includes('global') branch
globalBinding(name) ==
    IF includes(name, <<"b", "y", "p", "a", "s", "s">>) THEN Fn(<<"t", "o", "g", "g", "l", "e", "-", "p", "l", "u", "g", "i", "n", "-", "b", "y", "p", "a", "s", "s">>)
    ELSE IF includes(name, <<"w", "i", "n", "d", "o", "w">>) THEN Fn(<<"t", "o", "g", "g", "l", "e", "-", "e", "d", "i", "t", "o", "r", "-", "w", "i", "n", "d", "o", "w">>)
    ELSE Fn(<<"t", "r", "a", "c", "k", "-", "s", "e", "l", "e", "c", "t", "[", "1", "]">>)

\* category.includes('preamp') || name.includes('gain') branch
gainBinding(name) ==
    IF includes(name, <<"m", "i", "c">>) THEN Fn(<<"t", "r", "a", "c", "k", "-", "s", "e", "t", "-", "g", "a", "i", "n", "[", "1", "]">>)
    ELSE Fn(<<"t", "r", "a", "c", "k", "-", "s", "e", "t", "-", "t", "r", "i", "m", "[", "1", "]">>)

eqBinding_NoFallback(name) ==
    IF includes(name, <<"l", "o", "w">>) /\ ~includes(name, <<"m", "i", "d">>)
    THEN Fn(<<"t", "r", "a", "c", "k", "-", "s", "e", "t", "-", "s", "e", "n", "d", "-", "g", "a", "i", "n", "[", "1", ",", "1", "]">>)
    ELSE IF includes(name, <<"l", "o", "w", "-", "m", "i", "d">>) \/ includes(name, <<"l", "o", "w", " ", "m", "i", "d">>)
    THEN Fn(<<"t", "r", "a", "c", "k", "-", "s", "e", "t", "-", "s", "e", "n", "d", "-", "g", "a", "i", "n", "[", "1", ",", "2", "]">>)
    ELSE IF includes(name, <<"h", "i", "g", "h", "-", "m", "i", "d">>) \/ includes(name, <<"h", "i", "g", "h", " ", "m", "i", "d">>)
    THEN Fn(<<"t", "r", "a", "c", "k", "-", "s", "e", "t", "-", "s", "e", "n", "d", "-", "g", "a", "i", "n", "[", "1", ",", "3", "]">>)
    ELSE IF includes(name, <<"h", "i", "g", "h">>) /\ ~includes(name, <<"m", "i", "d">>)
    THEN Fn(<<"t", "r", "a", "c", "k", "-", "s", "e", "t", "-", "s", "e", "n", "d", "-", "g", "a", "i", "n", "[", "1", ",", "4", "]">>)
    ELSE Ref(None, None)

\* category.includes('eq') branch
eqBinding(name) ==
    IF includes(name, <<"l", "o", "w">>) /\ ~includes(name, <<"m", "i", "d">>)
    THEN Fn(<<"t", "r", "a", "c", "k", "-", "s", "e", "t", "-", "s", "e", "n", "d", "-", "g", "a", "i", "n", "[", "1", ",", "1", "]">>)
    ELSE IF includes(name, <<"l", "o", "w", "-", "m", "i", "d">>) \/ includes(name, <<"l", "o", "w", " ", "m", "i", "d">>)
    THEN Fn(<<"t", "r", "a", "c", "k", "-", "s", "e", "t", "-", "s", "e", "n", "d", "-", "g", "a", "i", "n", "[", "1", ",", "2", "]">>)
    ELSE IF includes(name, <<"h", "i", "g", "h", "-", "m", "i", "d">>) \/ includes(name, <<"h", "i", "g", "h", " ", "m", "i", "d">>)
    THEN Fn(<<"t", "r", "a", "c", "k", "-", "s", "e", "t", "-", "s", "e", "n", "d", "-", "g", "a", "i", "n", "[", "1", ",", "3", "]">>)
    ELSE IF includes(name, <<"h", "i", "g", "h">>) /\ ~includes(name, <<"m", "i", "d">>)
    THEN Fn(<<"t", "r", "a", "c", "k", "-", "s", "e", "t", "-", "s", "e", "n", "d", "-", "g", "a", "i", "n", "[", "1", ",", "4", "]">>)
    ELSE Fn(<<"t", "r", "a", "c", "k", "-", "s", "e", "t", "-", "s", "e", "n", "d", "-", "g", "a", "i", "n", "[", "1", ",", "1", "]">>)

\* category.includes('compressor') || name.includes('comp') branch
compressorBinding(name) ==
    IF includes(name, <<"t", "h", "r", "e", "s", "h", "o", "l", "d">>) THEN Fn(<<"t", "r", "a", "c", "k", "-", "s", "e", "t", "-", "s", "e", "n", "d", "-", "g", "a", "i", "n", "[", "1", ",", "5", "]">>)
    ELSE IF includes(name, <<"r", "a", "t", "i", "o">>) THEN Fn(<<"t", "r", "a", "c", "k", "-", "s", "e", "t", "-", "s", "e", "n", "d", "-", "g", "a", "i", "n", "[", "1", ",", "6", "]">>)
    ELSE IF includes(name, <<"r", "e", "l", "e", "a", "s", "e">>) THEN Fn(<<"t", "r", "a", "c", "k", "-", "s", "e", "t", "-", "s", "e", "n", "d", "-", "g", "a", "i", "n", "[", "1", ",", "7", "]">>)
    ELSE Fn(<<"t", "r", "a", "c", "k", "-", "s", "e", "t", "-", "s", "e", "n", "d", "-", "g", "a", "i", "n", "[", "1", ",", "8", "]">>)

trackBinding_EqFirst(category, name, paramId) ==
    IF includes(category, <<"e", "q">>)
    THEN eqBinding(name)
    ELSE IF includes(category, <<"p", "r", "e", "a", "m", "p">>) \/ includes(name, <<"g", "a", "i", "n">>)
    THEN gainBinding(name)
    ELSE IF includes(category, <<"c", "o", "m", "p", "r", "e", "s", "s", "o", "r">>) \/ includes(name, <<"c", "o", "m", "p">>)
    THEN compressorBinding(name)
    ELSE IF includes(category, <<"l", "i", "m", "i", "t", "e", "r">>) \/ includes(name, <<"l", "i", "m", "i", "t">>)
    THEN Fn(<<"t", "r", "a", "c", "k", "-", "s", "e", "t", "-", "t", "r", "i", "m", "[", "1", "]">>)
    ELSE IF includes(category, <<"t", "a", "p", "e">>) \/ includes(name, <<"t", "a", "p", "e">>)
    THEN Fn(<<"t", "r", "a", "c", "k", "-", "s", "e", "t", "-", "p", "a", "n", "[", "1", "]">>)
    ELSE IF includes(category, <<"f", "i", "l", "t", "e", "r">>)
    THEN Fn(<<"t", "r", "a", "c", "k", "-", "s", "e", "t", "-", "s", "e", "n", "d", "-", "g", "a", "i", "n", "[", "1", ",", "1", "]">>)
    ELSE Uri(parameterUri(paramId))

\* the "Default to track controls for other types" chain, lines 82-120
trackBinding(category, name, paramId) ==
    IF includes(category, <<"p", "r", "e", "a", "m", "p">>) \/ includes(name, <<"g", "a", "i", "n">>)
    THEN gainBinding(name)
    ELSE IF includes(category, <<"e", "q">>)
    THEN eqBinding(name)
    ELSE IF includes(category, <<"c", "o", "m", "p", "r", "e", "s", "s", "o", "r">>) \/ includes(name, <<"c", "o", "m", "p">>)
    THEN compressorBinding(name)
    ELSE IF includes(category, <<"l", "i", "m", "i", "t", "e", "r">>) \/ includes(name, <<"l", "i", "m", "i", "t">>)
    THEN Fn(<<"t", "r", "a", "c", "k", "-", "s", "e", "t", "-", "t", "r", "i", "m", "[", "1", "]">>)
    ELSE IF includes(category, <<"t", "a", "p", "e">>) \/ includes(name, <<"t", "a", "p", "e">>)
    THEN Fn(<<"t", "r", "a", "c", "k", "-", "s", "e", "t", "-", "p", "a", "n", "[", "1", "]">>)
    ELSE IF includes(category, <<"f", "i", "l", "t", "e", "r">>)
    THEN Fn(<<"t", "r", "a", "c", "k", "-", "s", "e", "t", "-", "s", "e", "n", "d", "-", "g", "a", "i", "n", "[", "1", ",", "1", "]">>)
    ELSE Uri(parameterUri(paramId))

\* x?.toLowerCase() || ''
lowerOrEmpty(o) == IF IsSet(o) THEN toLowerCase(Get(o)) ELSE <<>>

convertToArdourBinding_BothSet(m) ==
    IF m.pluginTarget.type = <<"b", "y", "p", "a", "s", "s">>
    THEN Fn(<<"t", "o", "g", "g", "l", "e", "-", "p", "l", "u", "g", "i", "n", "-", "b", "y", "p", "a", "s", "s">>)
    ELSE IF m.pluginTarget.type = <<"p", "a", "r", "a", "m", "e", "t", "e", "r">>
    THEN Ref(Some(<<"p", "l", "u", "g", "i", "n", "-", "p", "a", "r", "a", "m", "e", "t", "e", "r">>), Some(parameterUri(m.pluginTarget.identifier)))
    ELSE IF includes(lowerOrEmpty(m.pluginTarget.category), <<"g", "l", "o", "b", "a", "l">>)
    THEN globalBinding(lowerOrEmpty(m.pluginTarget.name))
    ELSE trackBinding(lowerOrEmpty(m.pluginTarget.category),
                      lowerOrEmpty(m.pluginTarget.name),
                      m.pluginTarget.identifier)

convertToArdourBinding_GlobalFirst(m) ==
    IF includes(lowerOrEmpty(m.pluginTarget.category), <<"g", "l", "o", "b", "a", "l">>)
    THEN globalBinding(lowerOrEmpty(m.pluginTarget.name))
    ELSE IF m.pluginTarget.type = <<"b", "y", "p", "a", "s", "s">>
    THEN Fn(<<"t", "o", "g", "g", "l", "e", "-", "p", "l", "u", "g", "i", "n", "-", "b", "y", "p", "a", "s", "s">>)
    ELSE IF m.pluginTarget.type = <<"p", "a", "r", "a", "m", "e", "t", "e", "r">>
    THEN Uri(parameterUri(m.pluginTarget.identifier))
    ELSE trackBinding(lowerOrEmpty(m.pluginTarget.category),
                      lowerOrEmpty(m.pluginTarget.name),
                      m.pluginTarget.identifier)

convertToArdourBinding(m) ==
    IF m.pluginTarget.type = <<"b", "y", "p", "a", "s", "s">>
    THEN Fn(<<"t", "o", "g", "g", "l", "e", "-", "p", "l", "u", "g", "i", "n", "-", "b", "y", "p", "a", "s", "s">>)
    ELSE IF m.pluginTarget.type = <<"p", "a", "r", "a", "m", "e", "t", "e", "r">>
    THEN Uri(parameterUri(m.pluginTarget.identifier))
    ELSE IF includes(lowerOrEmpty(m.pluginTarget.category), <<"g", "l", "o", "b", "a", "l">>)
    THEN globalBinding(lowerOrEmpty(m.pluginTarget.name))
    ELSE trackBinding(lowerOrEmpty(m.pluginTarget.category),
                      lowerOrEmpty(m.pluginTarget.name),
                      m.pluginTarget.identifier)

----------------------------------------------------------------------------
(* Schema-valid mapping entries (schema.ts: MidiMappingSchema) *)

PluginTargetTypes == {<<"p", "a", "r", "a", "m", "e", "t", "e", "r">>, <<"b", "y", "p", "a", "s", "s">>, <<"p", "r", "e", "s", "e", "t">>, <<"m", "a", "c", "r", "o">>}

MidiInputTypes == {<<"c", "c">>, <<"n", "o", "t", "e">>, <<"p", "i", "t", "c", "h", "b", "e", "n", "d">>, <<"a", "f", "t", "e", "r", "t", "o", "u", "c", "h">>, <<"p", "r", "o", "g", "r", "a", "m">>}

BehaviorModes == {<<"a", "b", "s", "o", "l", "u", "t", "e">>, <<"r", "e", "l", "a", "t", "i", "v", "e">>, <<"t", "o", "g", "g", "l", "e">>, <<"m", "o", "m", "e", "n", "t", "a", "r", "y">>}

Categories ==
    {None, Some(<<>>), Some(<<"E", "Q">>), Some(<<"G", "l", "o", "b", "a", "l">>), Some(<<"P", "r", "e", "a", "m", "p">>),
     Some(<<"C", "o", "m", "p", "r", "e", "s", "s", "o", "r">>), Some(<<"L", "i", "m", "i", "t", "e", "r">>), Some(<<"T", "a", "p", "e">>), Some(<<"F", "i", "l", "t", "e", "r">>),
     Some(<<"M", "o", "d", "u", "l", "a", "t", "i", "o", "n">>), Some(<<"G", "l", "o", "b", "a", "l", " ", "E", "Q">>)}

Names ==
    {None, Some(<<"T", "o", "n", "e">>), Some(<<"L", "o", "w">>), Some(<<"L", "o", "w", "-", "M", "i", "d">>), Some(<<"L", "o", "w", " ", "M", "i", "d">>),
     Some(<<"H", "i", "g", "h", "-", "M", "i", "d">>), Some(<<"H", "i", "g", "h">>), Some(<<"M", "i", "c", " ", "G", "a", "i", "n">>), Some(<<"G", "a", "i", "n">>),
     Some(<<"B", "y", "p", "a", "s", "s">>), Some(<<"W", "i", "n", "d", "o", "w">>), Some(<<"T", "h", "r", "e", "s", "h", "o", "l", "d">>), Some(<<"R", "a", "t", "i", "o">>),
     Some(<<"R", "e", "l", "e", "a", "s", "e">>), Some(<<"C", "o", "m", "p", " ", "M", "i", "x">>), Some(<<"L", "i", "m", "i", "t">>), Some(<<"T", "a", "p", "e", " ", "S", "p", "e", "e", "d">>),
     Some(<<"R", "a", "t", "e">>)}

Identifiers == {<<>>, <<" ">>, <<"p", "1">>}

MidiInput(t, ch, num, beh) ==
    [type |-> t, channel |-> ch, number |-> num, behavior |-> beh]

PluginTarget(t, ident, nm, cat) ==
    [type |-> t, identifier |-> ident, name |-> nm, category |-> cat]

Entry(id, input, target, en) ==
    [id |-> id, midiInput |-> input, pluginTarget |-> target, enabled |-> en]

\* the entries convertToArdourBinding is applied to; it reads pluginTarget only
ResolveInputs ==
    {Entry(<<"m", "1">>, MidiInput(<<"c", "c">>, None, None, None), PluginTarget(t, ident, nm, cat), TRUE) :
        t \in PluginTargetTypes, ident \in Identifiers, nm \in Names, cat \in Categories}

----------------------------------------------------------------------------
(* MidiMapBuilder *)

\* an ArdourBinding with no property set but its channel
Binding(channel) ==
    [channel |-> channel, ctl |-> None, note |-> None, encR |-> None,
     rpn |-> None, nrpn |-> None, rpn14 |-> None, nrpn14 |-> None,
     function |-> None, uri |-> None, action |-> None, encoder |-> None,
     momentary |-> None, threshold |-> None]

\* the object literal a caller passes to addCCBinding / addNoteBinding;
\* number is its controller or note property
Options(channel, number, function, uri, action, encoder, momentary, threshold) ==
    [channel |-> channel, number |-> number, function |-> function, uri |-> uri,
     action |-> action, encoder |-> encoder, momentary |-> momentary,
     threshold |-> threshold]

\* truthiness of an optional boolean
truthy(o) == IsSet(o) /\ Get(o)

yesIf(o) == IF truthy(o) THEN Some(<<"y", "e", "s">>) ELSE None

\* the binding addCCBinding pushes
ccBinding(options) ==
    [Binding(options.channel) EXCEPT
        !.ctl = Some(options.number),
        !.function = options.function,
        !.action = options.action,
        !.encoder = yesIf(options.encoder),
        !.momentary = yesIf(options.momentary),
        !.threshold = options.threshold]

noteBinding_AlsoCtl(options) ==
    [Binding(options.channel) EXCEPT
        !.ctl = Some(options.number),
        !.note = Some(options.number),
        !.function = options.function,
        !.action = options.action,
        !.momentary = yesIf(options.momentary),
        !.threshold = options.threshold]

\* the binding addNoteBinding pushes
noteBinding(options) ==
    [Binding(options.channel) EXCEPT
        !.note = Some(options.number),
        !.function = options.function,
        !.action = options.action,
        !.momentary = yesIf(options.momentary),
        !.threshold = options.threshold]

\* addCCBinding on the array this.bindings refers to
addCCBinding(bindings, options) == Append(bindings, ccBinding(options))

\* addNoteBinding on the array this.bindings refers to
addNoteBinding(bindings, options) == Append(bindings, noteBinding(options))

transportFunctions ==
    <<<<"t", "r", "a", "n", "s", "p", "o", "r", "t", "-", "s", "t", "o", "p">>, <<"t", "r", "a", "n", "s", "p", "o", "r", "t", "-", "r", "o", "l", "l">>, <<"t", "o", "g", "g", "l", "e", "-", "r", "e", "c", "-", "e", "n", "a", "b", "l", "e">>, <<"t", "o", "g", "g", "l", "e", "-", "r", "o", "l", "l">>,
      <<"s", "t", "o", "p", "-", "f", "o", "r", "g", "e", "t">>>>

\* transportFunctions.forEach((func, index) => this.addNoteBinding(...)), from index k
RECURSIVE transportFrom(_, _, _, _)
transportFrom(bindings, channel, startNote, k) ==
    IF k > Len(transportFunctions) THEN bindings
    ELSE transportFrom(
            addNoteBinding(bindings,
                Options(channel, startNote + (k - 1), Some(transportFunctions[k]),
                        None, None, None, Some(TRUE), None)),
            channel, startNote, k + 1)

addTransportControls(bindings, channel, startNote) ==
    transportFrom(bindings, channel, startNote, 1)

\* `${func}[${stripNumber}]`
stripFunction(func, stripNumber) ==
    func \o <<"[">> \o numberToString(stripNumber) \o <<"]">>

stripControls(baseCC) ==
    <<[cc |-> baseCC, func |-> <<"t", "r", "a", "c", "k", "-", "s", "e", "t", "-", "g", "a", "i", "n">>],
      [cc |-> baseCC + 1, func |-> <<"t", "r", "a", "c", "k", "-", "s", "e", "t", "-", "p", "a", "n">>],
      [cc |-> baseCC + 2, func |-> <<"t", "r", "a", "c", "k", "-", "s", "e", "t", "-", "s", "e", "n", "d", "-", "g", "a", "i", "n">>]>>

buttonControls(baseCC) ==
    <<[note |-> baseCC, func |-> <<"t", "o", "g", "g", "l", "e", "-", "t", "r", "a", "c", "k", "-", "m", "u", "t", "e">>],
      [note |-> baseCC + 1, func |-> <<"t", "o", "g", "g", "l", "e", "-", "t", "r", "a", "c", "k", "-", "s", "o", "l", "o">>],
      [note |-> baseCC + 2, func |-> <<"t", "o", "g", "g", "l", "e", "-", "r", "e", "c", "-", "e", "n", "a", "b", "l", "e">>],
      [note |-> baseCC + 3, func |-> <<"t", "r", "a", "c", "k", "-", "s", "e", "l", "e", "c", "t">>]>>

RECURSIVE stripFrom(_, _, _, _, _)
stripFrom(bindings, channel, stripNumber, controls, k) ==
    IF k > Len(controls) THEN bindings
    ELSE stripFrom(
            addCCBinding(bindings,
                Options(channel, controls[k].cc,
                        Some(stripFunction(controls[k].func, stripNumber)),
                        None, None, None, None, None)),
            channel, stripNumber, controls, k + 1)

RECURSIVE buttonsFrom(_, _, _, _, _)
buttonsFrom(bindings, channel, stripNumber, controls, k) ==
    IF k > Len(controls) THEN bindings
    ELSE buttonsFrom(
            addNoteBinding(bindings,
                Options(channel, controls[k].note,
                        Some(stripFunction(controls[k].func, stripNumber)),
                        None, None, None,
                        Some(controls[k].func = <<"t", "r", "a", "c", "k", "-", "s", "e", "l", "e", "c", "t">>), None)),
            channel, stripNumber, controls, k + 1)

addChannelStripControls(bindings, channel, stripNumber, baseCC) ==
    buttonsFrom(
        stripFrom(bindings, channel, stripNumber, stripControls(baseCC), 1),
        channel, stripNumber, buttonControls(baseCC), 1)

\* new MidiMapBuilder(options): the constructor reads name and version only,
\* and the field initialiser allocates the empty bindings array
MidiMapBuilder(hp, options) ==
    [heap |-> Append(hp, <<>>),
     this |-> [name |-> options.name, version |-> options.version,
               bindings |-> Len(hp) + 1]]

\* an ArdourMidiMap whose bindings property is the array at ref
MidiMap(name, version, deviceInfo, ref) ==
    [name |-> name, version |-> version, deviceInfo |-> deviceInfo, bindings |-> ref]

build_Alias(hp, builder) ==
    [heap |-> hp,
     map |-> MidiMap(builder.name, builder.version, None, builder.bindings)]

\* build(): bindings: [...this.bindings] is a new array with the same elements
build(hp, builder) ==
    [heap |-> Append(hp, hp[builder.bindings]),
     map |-> MidiMap(builder.name, builder.version, None, Len(hp) + 1)]

clear_KeepsBindings(hp, builder) == [heap |-> hp, this |-> builder]

\* clear(): this.bindings = [] points the builder at a new empty array
clear(hp, builder) ==
    [heap |-> Append(hp, <<>>),
     this |-> [builder EXCEPT !.bindings = Len(hp) + 1]]

getBindingCount(hp, builder) == Len(hp[builder.bindings])

\* the map as its holder reads it: bindings dereferenced
deref(hp, map) == [map EXCEPT !.bindings = hp[map.bindings]]

----------------------------------------------------------------------------
(* ArdourXMLSerializer *)

\* constructor defaults: options.indent ?? '  ', options.newline ?? '\n'
indent == <<" ", " ">>

newline == <<"\n">>

\* String.prototype.replace(/c/g, by) for a one-character pattern c: every
\* occurrence is replaced, left to right (evaluated by halves)
RECURSIVE replaceAll(_, _, _)
replaceAll(text, c, by) ==
    IF text = <<>> THEN <<>>
    ELSE IF Len(text) = 1 THEN (IF text[1] = c THEN by ELSE text)
    ELSE replaceAll(SubSeq(text, 1, Len(text) \div 2), c, by)
         \o replaceAll(SubSeq(text, (Len(text) \div 2) + 1, Len(text)), c, by)

escapeXML_AmpLast(text) ==
    replaceAll(replaceAll(replaceAll(replaceAll(replaceAll(text,
        <<"<">>[1], <<"&", "l", "t", ";">>), <<">">>[1], <<"&", "g", "t", ";">>), <<"\"">>[1], <<"&", "q", "u", "o", "t", ";">>), <<"'">>[1], <<"&", "a", "p", "o", "s", ";">>),
        <<"&">>[1], <<"&", "a", "m", "p", ";">>)

escapeXML(text) ==
    replaceAll(replaceAll(replaceAll(replaceAll(replaceAll(text,
        <<"&">>[1], <<"&", "a", "m", "p", ";">>), <<"<">>[1], <<"&", "l", "t", ";">>), <<">">>[1], <<"&", "g", "t", ";">>), <<"\"">>[1], <<"&", "q", "u", "o", "t", ";">>),
        <<"'">>[1], <<"&", "a", "p", "o", "s", ";">>)

\* `${key}="${value}"`
attribute(key, value) == key \o <<"=", "\"">> \o value \o <<"\"">>

\* attributes.push(...) when the condition holds
pushIf(attributes, cond, attr) == IF cond THEN Append(attributes, attr) ELSE attributes

\* a number-valued optional property, rendered when !== undefined
numberAttr(attributes, key, o) ==
    pushIf(attributes, IsSet(o), attribute(key, numberToString(IF IsSet(o) THEN Get(o) ELSE 0)))

\* a string-valued optional property, rendered escaped when truthy
textAttr(attributes, key, o) ==
    pushIf(attributes, IsSet(o) /\ Get(o) # <<>>,
           attribute(key, escapeXML(IF IsSet(o) THEN Get(o) ELSE <<>>)))

\* a string-valued optional property, rendered as is when truthy
flagAttr(attributes, key, o) ==
    pushIf(attributes, IsSet(o) /\ Get(o) # <<>>,
           attribute(key, IF IsSet(o) THEN Get(o) ELSE <<>>))

bindingAttributes(binding) ==
    numberAttr(
    flagAttr(
    flagAttr(
    textAttr(
    textAttr(
    textAttr(
    numberAttr(
    numberAttr(
    numberAttr(
    numberAttr(
    numberAttr(
    numberAttr(
    numberAttr(
        <<attribute(<<"c", "h", "a", "n", "n", "e", "l">>, numberToString(binding.channel))>>,
        <<"c", "t", "l">>, binding.ctl),
        <<"n", "o", "t", "e">>, binding.note),
        <<"e", "n", "c", "-", "r">>, binding.encR),
        <<"r", "p", "n">>, binding.rpn),
        <<"n", "r", "p", "n">>, binding.nrpn),
        <<"r", "p", "n", "-", "1", "4">>, binding.rpn14),
        <<"n", "r", "p", "n", "-", "1", "4">>, binding.nrpn14),
        <<"f", "u", "n", "c", "t", "i", "o", "n">>, binding.function),
        <<"u", "r", "i">>, binding.uri),
        <<"a", "c", "t", "i", "o", "n">>, binding.action),
        <<"e", "n", "c", "o", "d", "e", "r">>, binding.encoder),
        <<"m", "o", "m", "e", "n", "t", "a", "r", "y">>, binding.momentary),
        <<"t", "h", "r", "e", "s", "h", "o", "l", "d">>, binding.threshold)

serializeBinding(binding) ==
    <<"<", "B", "i", "n", "d", "i", "n", "g", " ">> \o join(bindingAttributes(binding), <<" ">>) \o <<"/", ">">>

\* for (const [key, value] of Object.entries(info)) if (value !== undefined) push
RECURSIVE infoAttributes(_)
infoAttributes(info) ==
    IF info = <<>> THEN <<>>
    ELSE (IF IsSet(info[1].value)
          THEN <<attribute(info[1].key, numberToString(Get(info[1].value)))>>
          ELSE <<>>) \o infoAttributes(Tail(info))

serializeDeviceInfoElement(deviceInfo) ==
    <<"<", "D", "e", "v", "i", "c", "e", "I", "n", "f", "o", " ">> \o join(infoAttributes(deviceInfo.deviceInfo), <<" ">>) \o <<"/", ">">>

rootElement(name) ==
    <<"<", "A", "r", "d", "o", "u", "r", "M", "I", "D", "I", "B", "i", "n", "d", "i", "n", "g", "s", " ", "v", "e", "r", "s", "i", "o", "n", "=", "\"", "1", ".", "0", ".", "0", "\"", " ", "n", "a", "m", "e", "=", "\"">> \o escapeXML(name) \o <<"\"", ">">>

prologue == <<"<", "?", "x", "m", "l", " ", "v", "e", "r", "s", "i", "o", "n", "=", "\"", "1", ".", "0", "\"", " ", "e", "n", "c", "o", "d", "i", "n", "g", "=", "\"", "U", "T", "F", "-", "8", "\"", "?", ">">>

closingElement == <<"<", "/", "A", "r", "d", "o", "u", "r", "M", "I", "D", "I", "B", "i", "n", "d", "i", "n", "g", "s", ">">>

bindingLines_CCFirst(bindings) ==
    [i \in 1..Len(SelectSeq(bindings, LAMBDA b : IsSet(b.ctl))) |->
        indent \o serializeBinding(SelectSeq(bindings, LAMBDA b : IsSet(b.ctl))[i])]
    \o
    [i \in 1..Len(SelectSeq(bindings, LAMBDA b : ~IsSet(b.ctl))) |->
        indent \o serializeBinding(SelectSeq(bindings, LAMBDA b : ~IsSet(b.ctl))[i])]

\* for (const binding of midiMap.bindings) lines.push(indent + serializeBinding(binding))
RECURSIVE bindingLines(_)
bindingLines(bindings) ==
    IF bindings = <<>> THEN <<>>
    ELSE <<indent \o serializeBinding(Head(bindings))>> \o bindingLines(Tail(bindings))

\* the lines array of serializeMidiMap, before the join
midiMapLines(map) ==
    <<prologue, rootElement(map.name)>>
    \o (IF IsSet(map.deviceInfo)
        THEN <<serializeDeviceInfoElement(Get(map.deviceInfo))>>
        ELSE <<>>)
    \o bindingLines(map.bindings)
    \o <<closingElement>>

\* serializeMidiMap of a map whose bindings property is the sequence itself
serializeMidiMap(map) == join(midiMapLines(map), newline)

\* a call that ends in `throw new Error(message)`, and one that returns
Throw(message) == [threw |-> TRUE, message |-> message]

Return(value) == [threw |-> FALSE, value |-> value]

parseMidiMap_EmptyMap(text) == Return(MidiMap(<<>>, None, None, <<>>))

\* parseMidiMap(_xml): throw new Error('XML parsing not yet implemented')
parseMidiMap(text) == Throw(<<"X", "M", "L", " ", "p", "a", "r", "s", "i", "n", "g", " ", "n", "o", "t", " ", "y", "e", "t", " ", "i", "m", "p", "l", "e", "m", "e", "n", "t", "e", "d">>)
----------------------------------------------------------------------------
(* A MidiMapBuilder under an arbitrary caller *)

MaxOps == 4

Idle == <<>>

BuilderOptions(name, version, deviceInfo) ==
    [name |-> name, version |-> version, deviceInfo |-> deviceInfo]

BuilderOptionSamples ==
    {BuilderOptions(<<"T", "e", "s", "t", " ", "M", "a", "p">>, None, None),
     BuilderOptions(<<"T", "e", "s", "t", " ", "M", "a", "p">>, Some(<<"1", ".", "0", ".", "0">>), None)}

CCOptionSamples ==
    {Options(1, 7, Some(<<"t", "r", "a", "c", "k", "-", "s", "e", "t", "-", "g", "a", "i", "n", "[", "1", "]">>), None, None, None, None, None),
     Options(1, 7, None, Some(parameterUri(<<"p", "1">>)), None, Some(FALSE), Some(FALSE), None),
     Options(2, 10, Some(<<"t", "r", "a", "c", "k", "-", "s", "e", "t", "-", "p", "a", "n", "[", "1", "]">>), None, Some(<<"t", "o", "g", "g", "l", "e">>), Some(TRUE), None, Some(64)),
     Options(1, 0, None, None, None, None, Some(TRUE), None)}

NoteOptionSamples ==
    {Options(1, 60, Some(<<"t", "r", "a", "n", "s", "p", "o", "r", "t", "-", "s", "t", "o", "p">>), None, None, None, Some(TRUE), None),
     Options(1, 60, None, Some(parameterUri(<<"p", "1">>)), None, None, Some(FALSE), None),
     Options(2, 0, Some(<<"t", "o", "g", "g", "l", "e", "-", "r", "o", "l", "l">>), None, Some(<<"p", "r", "e", "s", "s">>), Some(TRUE), None, Some(1))}

TransportSamples == {[channel |-> 1, startNote |-> 60]}

StripSamples == {[channel |-> 1, stripNumber |-> 12, baseCC |-> 20]}

OthersIdle ==
    /\ mapping = Idle /\ ardourBinding = Idle
    /\ job = Idle /\ pc = Idle
    /\ midiMap = Idle /\ xml = Idle
    /\ content = Idle /\ parsed = Idle /\ source = Idle

Init ==
    /\ \E o \in BuilderOptionSamples :
        /\ heap = MidiMapBuilder(<<>>, o).heap
        /\ this = MidiMapBuilder(<<>>, o).this
    /\ built = <<>>
    /\ count = None
    /\ nops = 0
    /\ OthersIdle

BuilderFrame == <<mapping, ardourBinding, job, pc, midiMap, xml, content, parsed, source>>

AddCCBinding ==
    /\ nops < MaxOps
    /\ \E o \in CCOptionSamples :
        heap' = [heap EXCEPT ![this.bindings] = addCCBinding(@, o)]
    /\ nops' = nops + 1
    /\ UNCHANGED <<this, built, count, BuilderFrame>>

AddNoteBinding ==
    /\ nops < MaxOps
    /\ \E o \in NoteOptionSamples :
        heap' = [heap EXCEPT ![this.bindings] = addNoteBinding(@, o)]
    /\ nops' = nops + 1
    /\ UNCHANGED <<this, built, count, BuilderFrame>>

AddTransportControls ==
    /\ nops < MaxOps
    /\ \E a \in TransportSamples :
        heap' = [heap EXCEPT ![this.bindings] =
                    addTransportControls(@, a.channel, a.startNote)]
    /\ nops' = nops + 1
    /\ UNCHANGED <<this, built, count, BuilderFrame>>

AddChannelStripControls ==
    /\ nops < MaxOps
    /\ \E a \in StripSamples :
        heap' = [heap EXCEPT ![this.bindings] =
                    addChannelStripControls(@, a.channel, a.stripNumber, a.baseCC)]
    /\ nops' = nops + 1
    /\ UNCHANGED <<this, built, count, BuilderFrame>>

Build ==
    /\ nops < MaxOps
    /\ heap' = build(heap, this).heap
    /\ built' = Append(built, build(heap, this).map)
    /\ nops' = nops + 1
    /\ UNCHANGED <<this, count, BuilderFrame>>

Clear ==
    /\ nops < MaxOps
    /\ heap' = clear(heap, this).heap
    /\ this' = clear(heap, this).this
    /\ nops' = nops + 1
    /\ UNCHANGED <<built, count, BuilderFrame>>

GetBindingCount ==
    /\ nops < MaxOps
    /\ count' = Some(getBindingCount(heap, this))
    /\ nops' = nops + 1
    /\ UNCHANGED <<heap, this, built, BuilderFrame>>

Next ==
    \/ AddCCBinding
    \/ AddNoteBinding
    \/ AddTransportControls
    \/ AddChannelStripControls
    \/ Build
    \/ Clear
    \/ GetBindingCount

Spec == Init /\ [][Next]_vars

\* every binding array a holder can read: the accumulator and the built maps
AllBindings ==
    {heap[this.bindings][i] : i \in 1..Len(heap[this.bindings])}
    \cup UNION {{heap[built[k].bindings][i] : i \in 1..Len(heap[built[k].bindings])} :
                k \in 1..Len(built)}

(* C1: a map returned by build() is a snapshot: no later builder operation
   changes the binding sequence of any previously built map. *)
C1_BuiltMapsAreSnapshots ==
    [][\A k \in 1..Len(built) :
         deref(heap', built[k]).bindings = deref(heap, built[k]).bindings]_vars

\* a built map exists and the builder went on to hold different bindings
C1_Witness ==
    \E k \in 1..Len(built) :
        /\ Len(heap[built[k].bindings]) > 0
        /\ heap[this.bindings] # heap[built[k].bindings]
        /\ this.bindings # built[k].bindings

(* C2: every binding in the accumulator and in every built map has exactly
   one of ctl, note set and at most one of function, uri set. *)
C2_BindingExclusivity ==
    \A b \in AllBindings :
        /\ IsSet(b.ctl) # IsSet(b.note)
        /\ ~(IsSet(b.function) /\ IsSet(b.uri))

\* bindings of both kinds, appended one by one and in bulk, also in a built map
C2_Witness ==
    /\ \E b \in AllBindings : IsSet(b.ctl)
    /\ \E b \in AllBindings : IsSet(b.note)
    /\ Len(built) > 0
    /\ Len(heap[built[1].bindings]) >= 7


\* the accumulator: the array this.bindings refers to
Accumulator == heap[this.bindings]

\* the accumulator after a step keeps what it held and ends with n more bindings
Appended(n) ==
    /\ Len(Accumulator') = Len(Accumulator) + n
    /\ SubSeq(Accumulator', 1, Len(Accumulator)) = Accumulator

\* the kinds of the last n bindings of the accumulator after a step, oldest first
NewKinds(n) ==
    [i \in 1..n |->
        IF IsSet(Accumulator'[Len(Accumulator) + i].ctl) THEN "cc" ELSE "note"]

(* C21: the accumulator starts empty; addCCBinding and addNoteBinding append
   one binding, addTransportControls appends five note bindings,
   addChannelStripControls appends three cc bindings and then four note
   bindings, clear() empties the accumulator, build() and getBindingCount()
   leave it as it is, getBindingCount() returns its length and build() returns
   its bindings in append order. *)
C21_CountFollowsAppends ==
    /\ Len(Accumulator) = 0
    /\ [][/\ AddCCBinding => (Appended(1) /\ NewKinds(1) = <<"cc">>)
          /\ AddNoteBinding => (Appended(1) /\ NewKinds(1) = <<"note">>)
          /\ AddTransportControls =>
                (Appended(5) /\ NewKinds(5) = <<"note", "note", "note", "note", "note">>)
          /\ AddChannelStripControls =>
                (Appended(7)
                 /\ NewKinds(7) = <<"cc", "cc", "cc", "note", "note", "note", "note">>)
          /\ Clear => (Len(Accumulator') = 0 /\ this'.name = this.name)
          /\ Build =>
                (/\ Accumulator' = Accumulator
                 /\ heap'[built'[Len(built')].bindings] = Accumulator)
          /\ GetBindingCount =>
                (Accumulator' = Accumulator /\ count' = Some(Len(Accumulator)))]_vars

\* a builder that was filled, cleared and filled again has been counted
C21_Witness ==
    /\ IsSet(count)
    /\ Get(count) = 5
    /\ this.bindings > 1
    /\ Len(heap[1]) > 0
    /\ Len(Accumulator) = 5
----------------------------------------------------------------------------
(* convertToArdourBinding applied to schema-valid mapping entries *)

InitResolve ==
    /\ mapping \in ResolveInputs
    /\ ardourBinding = None
    /\ heap = Idle /\ this = Idle /\ built = Idle /\ count = Idle /\ nops = 0
    /\ job = Idle /\ pc = Idle
    /\ midiMap = Idle /\ xml = Idle
    /\ content = Idle /\ parsed = Idle /\ source = Idle

Resolve ==
    /\ ardourBinding' = Some(convertToArdourBinding(mapping))
    /\ UNCHANGED <<mapping, heap, this, built, count, nops, job, pc, midiMap, xml,
                   content, parsed, source>>

NextResolve == Resolve

SpecResolve == InitResolve /\ [][NextResolve]_vars

IsEqTone(m) ==
    /\ m.pluginTarget.category = Some(<<"E", "Q">>)
    /\ m.pluginTarget.name = Some(<<"T", "o", "n", "e">>)

(* C4: for every schema-valid mapping entry, the result of
   convertToArdourBinding has exactly one of function, uri set. *)
C4_ExactlyOneReference ==
    IsSet(ardourBinding) =>
        IsSet(Get(ardourBinding).function) # IsSet(Get(ardourBinding).uri)

\* an entry no classification rule matches has been resolved by the final else
C4_Witness ==
    /\ IsSet(ardourBinding)
    /\ mapping.pluginTarget.type = <<"m", "a", "c", "r", "o">>
    /\ mapping.pluginTarget.category = Some(<<"M", "o", "d", "u", "l", "a", "t", "i", "o", "n">>)
    /\ IsSet(Get(ardourBinding).uri)

(* C5 as stated: category "EQ", name "Tone" resolves to track-set-send-gain[1,1]
   for every plugin-target kind. *)
C5_EqToneEveryKind ==
    (IsSet(ardourBinding) /\ IsEqTone(mapping)) =>
        Get(ardourBinding) = Fn(<<"t", "r", "a", "c", "k", "-", "s", "e", "t", "-", "s", "e", "n", "d", "-", "g", "a", "i", "n", "[", "1", ",", "1", "]">>)

(* C5 amended: category "EQ", name "Tone" resolves to track-set-send-gain[1,1]
   when the plugin-target kind is preset or macro. *)
C5_EqTonePresetOrMacro ==
    (/\ IsSet(ardourBinding)
     /\ IsEqTone(mapping)
     /\ mapping.pluginTarget.type \in {<<"p", "r", "e", "s", "e", "t">>, <<"m", "a", "c", "r", "o">>}) =>
        Get(ardourBinding) = Fn(<<"t", "r", "a", "c", "k", "-", "s", "e", "t", "-", "s", "e", "n", "d", "-", "g", "a", "i", "n", "[", "1", ",", "1", "]">>)

C5_Witness ==
    /\ IsSet(ardourBinding)
    /\ IsEqTone(mapping)
    /\ mapping.pluginTarget.type = <<"p", "r", "e", "s", "e", "t">>


(* C17: an entry whose plugin-target type is 'bypass' resolves to the function
   'toggle-plugin-bypass' and no uri, whatever its category, name and
   identifier are. *)
C17_BypassAlwaysToggles ==
    (IsSet(ardourBinding) /\ mapping.pluginTarget.type = <<"b", "y", "p", "a", "s", "s">>) =>
        /\ Get(ardourBinding).function = Some(<<"t", "o", "g", "g", "l", "e", "-", "p", "l", "u", "g", "i", "n", "-", "b", "y", "p", "a", "s", "s">>)
        /\ ~IsSet(Get(ardourBinding).uri)

\* a bypass entry whose category and name match the global and window rules
C17_Witness ==
    /\ IsSet(ardourBinding)
    /\ mapping.pluginTarget.type = <<"b", "y", "p", "a", "s", "s">>
    /\ mapping.pluginTarget.category = Some(<<"G", "l", "o", "b", "a", "l">>)
    /\ mapping.pluginTarget.name = Some(<<"W", "i", "n", "d", "o", "w">>)

\* the substring tests of the classification chain, by rule
RuleMatches(rule, category, name) ==
    CASE rule = "global" -> includes(category, <<"g", "l", "o", "b", "a", "l">>)
      [] rule = "gain" -> includes(category, <<"p", "r", "e", "a", "m", "p">>) \/ includes(name, <<"g", "a", "i", "n">>)
      [] rule = "eq" -> includes(category, <<"e", "q">>)
      [] rule = "compressor" -> includes(category, <<"c", "o", "m", "p", "r", "e", "s", "s", "o", "r">>) \/ includes(name, <<"c", "o", "m", "p">>)
      [] rule = "limiter" -> includes(category, <<"l", "i", "m", "i", "t", "e", "r">>) \/ includes(name, <<"l", "i", "m", "i", "t">>)
      [] rule = "tape" -> includes(category, <<"t", "a", "p", "e">>) \/ includes(name, <<"t", "a", "p", "e">>)
      [] rule = "filter" -> includes(category, <<"f", "i", "l", "t", "e", "r">>)
      [] rule = "fallback" -> TRUE

RuleOutcome(rule, name, paramId) ==
    CASE rule = "global" -> globalBinding(name)
      [] rule = "gain" -> gainBinding(name)
      [] rule = "eq" -> eqBinding(name)
      [] rule = "compressor" -> compressorBinding(name)
      [] rule = "limiter" -> Fn(<<"t", "r", "a", "c", "k", "-", "s", "e", "t", "-", "t", "r", "i", "m", "[", "1", "]">>)
      [] rule = "tape" -> Fn(<<"t", "r", "a", "c", "k", "-", "s", "e", "t", "-", "p", "a", "n", "[", "1", "]">>)
      [] rule = "filter" -> Fn(<<"t", "r", "a", "c", "k", "-", "s", "e", "t", "-", "s", "e", "n", "d", "-", "g", "a", "i", "n", "[", "1", ",", "1", "]">>)
      [] rule = "fallback" -> Uri(<<"/", "r", "o", "u", "t", "e", "/", "p", "l", "u", "g", "i", "n", "/", "p", "a", "r", "a", "m", "e", "t", "e", "r", " ", "S", "1", " ", "1", " ">> \o paramId)

\* the rules of an order that match, as positions
Matching(order, category, name) ==
    {i \in 1..Len(order) : RuleMatches(order[i], category, name)}

\* first match wins
FirstMatch(order, category, name) ==
    order[CHOOSE i \in Matching(order, category, name) :
            \A j \in Matching(order, category, name) : i <= j]

Decided(order, m) ==
    RuleOutcome(FirstMatch(order, lowerOrEmpty(m.pluginTarget.category),
                           lowerOrEmpty(m.pluginTarget.name)),
                lowerOrEmpty(m.pluginTarget.name), m.pluginTarget.identifier)

\* an entry that is neither a bypass nor a parameter reaches the classification
ReachesClassification(m) == m.pluginTarget.type \notin {<<"b", "y", "p", "a", "s", "s">>, <<"p", "a", "r", "a", "m", "e", "t", "e", "r">>}

(* C18: an entry of type 'parameter' whose category and name match no
   classification rule resolves to a uri and no function, and the uri is the
   path template followed by the identifier exactly as given, also when the
   identifier is empty or a blank. *)
C18_ParameterUriVerbatim ==
    (/\ IsSet(ardourBinding)
     /\ mapping.pluginTarget.type = <<"p", "a", "r", "a", "m", "e", "t", "e", "r">>
     /\ FirstMatch(<<"global", "gain", "eq", "compressor", "limiter", "tape", "filter",
                     "fallback">>,
                   lowerOrEmpty(mapping.pluginTarget.category),
                   lowerOrEmpty(mapping.pluginTarget.name)) = "fallback") =>
        /\ ~IsSet(Get(ardourBinding).function)
        /\ Get(ardourBinding).uri =
             Some(<<"/", "r", "o", "u", "t", "e", "/", "p", "l", "u", "g", "i", "n", "/", "p", "a", "r", "a", "m", "e", "t", "e", "r", " ", "S", "1", " ", "1", " ">> \o mapping.pluginTarget.identifier)

\* a parameter of an unrecognized category whose identifier is one blank
C18_Witness ==
    /\ IsSet(ardourBinding)
    /\ mapping.pluginTarget.type = <<"p", "a", "r", "a", "m", "e", "t", "e", "r">>
    /\ mapping.pluginTarget.category = Some(<<"M", "o", "d", "u", "l", "a", "t", "i", "o", "n">>)
    /\ mapping.pluginTarget.name = Some(<<"R", "a", "t", "e">>)
    /\ mapping.pluginTarget.identifier = <<" ">>
    /\ IsSet(Get(ardourBinding).uri)

(* C20 as stated: an entry that reaches classification is decided by the first
   matching rule in the order gain/preamp, equalizer, compressor, limiter,
   filter, global, fallback. *)
C20_ClaimedRuleOrder ==
    (IsSet(ardourBinding) /\ ReachesClassification(mapping)) =>
        Get(ardourBinding) =
            Decided(<<"gain", "eq", "compressor", "limiter", "filter", "global", "fallback">>,
                    mapping)

(* C20 amended: an entry that reaches classification is decided by the first
   matching rule in the order global, gain/preamp, equalizer, compressor,
   limiter, tape, filter, fallback. *)
C20_RuleOrder ==
    (IsSet(ardourBinding) /\ ReachesClassification(mapping)) =>
        Get(ardourBinding) =
            Decided(<<"global", "gain", "eq", "compressor", "limiter", "tape", "filter",
                      "fallback">>,
                    mapping)

\* an entry matching both the global rule and the gain rule went to the global rule
C20_Witness ==
    /\ IsSet(ardourBinding)
    /\ ReachesClassification(mapping)
    /\ mapping.pluginTarget.category = Some(<<"G", "l", "o", "b", "a", "l">>)
    /\ mapping.pluginTarget.name = Some(<<"G", "a", "i", "n">>)
    /\ Get(ardourBinding) = Fn(<<"t", "r", "a", "c", "k", "-", "s", "e", "l", "e", "c", "t", "[", "1", "]">>)

----------------------------------------------------------------------------
(* Template controls: convertControlToArdourBinding / getGenericArdourBinding *)

\* getGenericArdourBinding, type === 'slider'
sliderBinding(name) ==
    IF includes(name, <<"a", "t", "t", "a", "c", "k">>) \/ includes(name, <<"a">>)
    THEN Fn(<<"t", "r", "a", "c", "k", "-", "s", "e", "t", "-", "s", "e", "n", "d", "-", "g", "a", "i", "n", "[", "1", ",", "1", "]">>)
    ELSE IF includes(name, <<"d", "e", "c", "a", "y">>) \/ includes(name, <<"d">>)
    THEN Fn(<<"t", "r", "a", "c", "k", "-", "s", "e", "t", "-", "s", "e", "n", "d", "-", "g", "a", "i", "n", "[", "1", ",", "2", "]">>)
    ELSE IF includes(name, <<"s", "u", "s", "t", "a", "i", "n">>) \/ includes(name, <<"s">>)
    THEN Fn(<<"t", "r", "a", "c", "k", "-", "s", "e", "t", "-", "s", "e", "n", "d", "-", "g", "a", "i", "n", "[", "1", ",", "3", "]">>)
    ELSE IF includes(name, <<"r", "e", "l", "e", "a", "s", "e">>) \/ includes(name, <<"r">>)
    THEN Fn(<<"t", "r", "a", "c", "k", "-", "s", "e", "t", "-", "s", "e", "n", "d", "-", "g", "a", "i", "n", "[", "1", ",", "4", "]">>)
    ELSE IF includes(name, <<"l", "e", "v", "e", "l">>) \/ includes(name, <<"v", "o", "l", "u", "m", "e">>)
    THEN Fn(<<"t", "r", "a", "c", "k", "-", "s", "e", "t", "-", "g", "a", "i", "n", "[", "1", "]">>)
    ELSE IF includes(name, <<"o", "s", "c">>) /\ includes(name, <<"1">>)
    THEN Fn(<<"t", "r", "a", "c", "k", "-", "s", "e", "t", "-", "s", "e", "n", "d", "-", "g", "a", "i", "n", "[", "1", ",", "5", "]">>)
    ELSE IF includes(name, <<"o", "s", "c">>) /\ includes(name, <<"2">>)
    THEN Fn(<<"t", "r", "a", "c", "k", "-", "s", "e", "t", "-", "s", "e", "n", "d", "-", "g", "a", "i", "n", "[", "1", ",", "6", "]">>)
    ELSE IF includes(name, <<"o", "s", "c">>) /\ includes(name, <<"3">>)
    THEN Fn(<<"t", "r", "a", "c", "k", "-", "s", "e", "t", "-", "s", "e", "n", "d", "-", "g", "a", "i", "n", "[", "1", ",", "7", "]">>)
    ELSE IF includes(name, <<"n", "o", "i", "s", "e">>)
    THEN Fn(<<"t", "r", "a", "c", "k", "-", "s", "e", "t", "-", "s", "e", "n", "d", "-", "g", "a", "i", "n", "[", "1", ",", "8", "]">>)
    ELSE Fn(<<"t", "r", "a", "c", "k", "-", "s", "e", "t", "-", "t", "r", "i", "m", "[", "1", "]">>)

\* getGenericArdourBinding, type === 'encoder'
encoderBinding(name) ==
    IF includes(name, <<"c", "u", "t", "o", "f", "f">>) THEN Fn(<<"t", "r", "a", "c", "k", "-", "s", "e", "t", "-", "s", "e", "n", "d", "-", "g", "a", "i", "n", "[", "1", ",", "1", "]">>)
    ELSE IF includes(name, <<"r", "e", "s", "o", "n", "a", "n", "c", "e">>) THEN Fn(<<"t", "r", "a", "c", "k", "-", "s", "e", "t", "-", "s", "e", "n", "d", "-", "g", "a", "i", "n", "[", "1", ",", "2", "]">>)
    ELSE IF includes(name, <<"l", "f", "o">>) /\ includes(name, <<"r", "a", "t", "e">>)
    THEN Fn(<<"t", "r", "a", "c", "k", "-", "s", "e", "t", "-", "s", "e", "n", "d", "-", "g", "a", "i", "n", "[", "1", ",", "3", "]">>)
    ELSE IF includes(name, <<"g", "l", "i", "d", "e">>) \/ includes(name, <<"p", "o", "r", "t", "a", "m", "e", "n", "t", "o">>)
    THEN Fn(<<"t", "r", "a", "c", "k", "-", "s", "e", "t", "-", "s", "e", "n", "d", "-", "g", "a", "i", "n", "[", "1", ",", "4", "]">>)
    ELSE Fn(<<"t", "r", "a", "c", "k", "-", "s", "e", "t", "-", "p", "a", "n", "[", "1", "]">>)

\* getGenericArdourBinding, type === 'button'
buttonBinding(name) ==
    IF includes(name, <<"s", "o", "l", "o">>) THEN Fn(<<"t", "r", "a", "c", "k", "-", "s", "o", "l", "o", "[", "1", "]">>)
    ELSE IF includes(name, <<"m", "u", "t", "e">>) THEN Fn(<<"t", "r", "a", "c", "k", "-", "m", "u", "t", "e", "[", "1", "]">>)
    ELSE Fn(<<"t", "r", "a", "n", "s", "p", "o", "r", "t", "-", "s", "t", "o", "p">>)

getGenericArdourBinding(control) ==
    IF control.type = <<"s", "l", "i", "d", "e", "r">> THEN sliderBinding(toLowerCase(control.name))
    ELSE IF control.type = <<"e", "n", "c", "o", "d", "e", "r">> THEN encoderBinding(toLowerCase(control.name))
    ELSE IF control.type = <<"b", "u", "t", "t", "o", "n">> THEN buttonBinding(toLowerCase(control.name))
    ELSE Fn(<<"t", "r", "a", "c", "k", "-", "s", "e", "l", "e", "c", "t", "[", "1", "]">>)

\* !control.plugin_parameter
noPluginParameter(control) ==
    ~IsSet(control.plugin_parameter) \/ Get(control.plugin_parameter) = <<>>

convertControlToArdourBinding(control) ==
    IF noPluginParameter(control) THEN getGenericArdourBinding(control)
    ELSE Uri(<<"/", "r", "o", "u", "t", "e", "/", "p", "l", "u", "g", "i", "n", "/", "p", "a", "r", "a", "m", "e", "t", "e", "r", " ", "S", "1", " ", "1", " ">> \o Get(control.plugin_parameter))

\* the binding of a button of a button group
groupButtonBinding(button) ==
    IF noPluginParameter(button)
    THEN getGenericArdourBinding([name |-> button.name, type |-> <<"b", "u", "t", "t", "o", "n">>])
    ELSE Uri(<<"/", "r", "o", "u", "t", "e", "/", "p", "l", "u", "g", "i", "n", "/", "p", "a", "r", "a", "m", "e", "t", "e", "r", " ", "S", "1", " ", "1", " ">> \o Get(button.plugin_parameter))

Control(name, type, parameter) ==
    [name |-> name, type |-> type, plugin_parameter |-> parameter]

ControlNames ==
    {<<"A", "t", "t", "a", "c", "k">>, <<"D", "e", "c", "a", "y">>, <<"S", "u", "s", "t", "a", "i", "n">>, <<"R", "e", "l", "e", "a", "s", "e">>, <<"L", "e", "v", "e", "l">>, <<"V", "o", "l", "u", "m", "e">>, <<"E", "n", "v", " ", "A", "t", "t", "a", "c", "k">>,
     <<"F", "i", "l", "t", "e", "r", " ", "D", "e", "c", "a", "y">>, <<"O", "s", "c", " ", "1">>, <<"O", "s", "c", " ", "2">>, <<"O", "s", "c", " ", "3">>, <<"N", "o", "i", "s", "e">>, <<"C", "u", "t", "o", "f", "f">>, <<"R", "e", "s", "o", "n", "a", "n", "c", "e">>,
     <<"L", "F", "O", " ", "R", "a", "t", "e">>, <<"G", "l", "i", "d", "e">>, <<"S", "o", "l", "o">>, <<"M", "u", "t", "e">>, <<"T", "u", "n", "e">>, <<"P", "i", "t", "c", "h">>}

ControlTypes == {<<"s", "l", "i", "d", "e", "r">>, <<"e", "n", "c", "o", "d", "e", "r">>, <<"b", "u", "t", "t", "o", "n">>, <<"k", "n", "o", "b">>}

ControlSamples ==
    {Control(n, t, p) : n \in ControlNames, t \in ControlTypes,
                        p \in {None, Some(<<>>), Some(<<"c", "u", "t", "o", "f", "f">>)}}

InitTemplate ==
    /\ mapping \in ControlSamples
    /\ ardourBinding = None
    /\ heap = Idle /\ this = Idle /\ built = Idle /\ count = Idle /\ nops = 0
    /\ job = Idle /\ pc = Idle
    /\ midiMap = Idle /\ xml = Idle
    /\ content = Idle /\ parsed = Idle /\ source = Idle

\* const ardourBinding = convertControlToArdourBinding(control)
ConvertControl ==
    /\ ardourBinding' = Some(convertControlToArdourBinding(mapping))
    /\ UNCHANGED <<mapping, heap, this, built, count, nops, job, pc, midiMap, xml,
                   content, parsed, source>>

\* the binding computed for a button of a button group
ConvertGroupButton ==
    /\ ardourBinding' = Some(groupButtonBinding(mapping))
    /\ UNCHANGED <<mapping, heap, this, built, count, nops, job, pc, midiMap, xml,
                   content, parsed, source>>

NextTemplate ==
    \/ ConvertControl
    \/ ConvertGroupButton

SpecTemplate == InitTemplate /\ [][NextTemplate]_vars

\* the function a slider with this name is meant to resolve to
SliderFunction(name, keyword, function) ==
    includes(toLowerCase(name), keyword) => Get(ardourBinding') = Fn(function)

(* C23: getGenericArdourBinding resolves a slider whose name contains
   'attack', 'decay', 'sustain' or 'release' to track-set-send-gain[1,1],
   [1,2], [1,3] and [1,4] respectively, and one whose name contains 'level' or
   'volume' to track-set-gain[1]. *)
C23_EnvelopeSliders ==
    [][(/\ ConvertControl
        /\ noPluginParameter(mapping)
        /\ mapping.type = <<"s", "l", "i", "d", "e", "r">>) =>
            /\ SliderFunction(mapping.name, <<"a", "t", "t", "a", "c", "k">>, <<"t", "r", "a", "c", "k", "-", "s", "e", "t", "-", "s", "e", "n", "d", "-", "g", "a", "i", "n", "[", "1", ",", "1", "]">>)
            /\ SliderFunction(mapping.name, <<"d", "e", "c", "a", "y">>, <<"t", "r", "a", "c", "k", "-", "s", "e", "t", "-", "s", "e", "n", "d", "-", "g", "a", "i", "n", "[", "1", ",", "2", "]">>)
            /\ SliderFunction(mapping.name, <<"s", "u", "s", "t", "a", "i", "n">>, <<"t", "r", "a", "c", "k", "-", "s", "e", "t", "-", "s", "e", "n", "d", "-", "g", "a", "i", "n", "[", "1", ",", "3", "]">>)
            /\ SliderFunction(mapping.name, <<"r", "e", "l", "e", "a", "s", "e">>, <<"t", "r", "a", "c", "k", "-", "s", "e", "t", "-", "s", "e", "n", "d", "-", "g", "a", "i", "n", "[", "1", ",", "4", "]">>)
            /\ SliderFunction(mapping.name, <<"l", "e", "v", "e", "l">>, <<"t", "r", "a", "c", "k", "-", "s", "e", "t", "-", "g", "a", "i", "n", "[", "1", "]">>)
            /\ SliderFunction(mapping.name, <<"v", "o", "l", "u", "m", "e">>, <<"t", "r", "a", "c", "k", "-", "s", "e", "t", "-", "g", "a", "i", "n", "[", "1", "]">>)]_vars
----------------------------------------------------------------------------
(* serializeMidiMap applied to target maps *)

MaxSerBindings == 3

DeviceInfo(name, info) == [deviceName |-> name, deviceInfo |-> info]

SerNames == {<<"T", "e", "s", "t", " ", "M", "a", "p">>, <<"A", "&", "B", " ", "<", "\"", "x", "\"", ">", " ", "'", "y", "'">>, <<"&", "a", "m", "p", ";">>}

SerDeviceInfos ==
    {None, Some(DeviceInfo(<<"L", "a", "u", "n", "c", "h", " ", "C", "o", "n", "t", "r", "o", "l", " ", "X", "L">>, <<[key |-> <<"b", "a", "n", "k", "-", "s", "i", "z", "e">>, value |-> Some(8)]>>))}

SerBindingSamples ==
    {[Binding(1) EXCEPT !.ctl = Some(7), !.function = Some(<<"t", "r", "a", "c", "k", "-", "s", "e", "t", "-", "g", "a", "i", "n", "[", "1", "]">>)],
     [Binding(1) EXCEPT !.note = Some(60), !.function = Some(<<"a", "<", "b", "&", "c">>),
                        !.momentary = Some(<<"y", "e", "s">>)],
     [Binding(2) EXCEPT !.ctl = Some(10), !.uri = Some(parameterUri(<<"\"", "p", "\"", "&">>)),
                        !.encoder = Some(<<"y", "e", "s">>), !.threshold = Some(64)],
     [Binding(16) EXCEPT !.note = Some(127), !.action = Some(<<"i", "t", "'", "s", " ", ">", " ", "&", "l", "t", ";">>)],
     [Binding(1) EXCEPT !.ctl = Some(0), !.function = Some(<<>>), !.encR = Some(1)]}

RECURSIVE SeqsUpTo(_, _)
SeqsUpTo(S, n) ==
    IF n = 0 THEN {<<>>}
    ELSE SeqsUpTo(S, n - 1) \cup
         {Append(s, x) : s \in {t \in SeqsUpTo(S, n - 1) : Len(t) = n - 1}, x \in S}

SerializeInputs ==
    {MidiMap(nm, None, dev, bs) :
        nm \in SerNames, dev \in SerDeviceInfos, bs \in SeqsUpTo(SerBindingSamples, MaxSerBindings)}

InitSerialize ==
    /\ midiMap \in SerializeInputs
    /\ xml = None
    /\ mapping = Idle /\ ardourBinding = Idle
    /\ heap = Idle /\ this = Idle /\ built = Idle /\ count = Idle /\ nops = 0
    /\ job = Idle /\ pc = Idle
    /\ content = Idle /\ parsed = Idle /\ source = Idle

Serialize ==
    /\ xml' = Some(serializeMidiMap(midiMap))
    /\ UNCHANGED <<midiMap, mapping, ardourBinding, heap, this, built, count, nops,
                   job, pc, content, parsed, source>>

\* parseMidiMap applied to the rendered text, or to the empty text
ParseMidiMap ==
    /\ IsSet(xml)
    /\ parsed = None
    /\ \E text \in {Get(xml), <<>>} :
          parsed' = Some([text |-> text, outcome |-> parseMidiMap(text)])
    /\ UNCHANGED <<xml, midiMap, mapping, ardourBinding, heap, this, built, count, nops,
                   job, pc, content, source>>

NextSerialize ==
    \/ Serialize
    \/ ParseMidiMap

SpecSerialize == InitSerialize /\ [][NextSerialize]_vars

\* positions of the line separators of text
Breaks(text) == {i \in 1..Len(text) : text[i] = newline[1]}

\* position of the k-th line separator; 0 before the first, Len + 1 after the last
BreakAt(text, k) ==
    IF k = 0 THEN 0
    ELSE IF k > Cardinality(Breaks(text)) THEN Len(text) + 1
    ELSE CHOOSE p \in Breaks(text) : Cardinality({q \in Breaks(text) : q < p}) = k - 1

\* the rendered text cut at each line separator
Lines(text) ==
    [k \in 1..(Cardinality(Breaks(text)) + 1) |->
        SubSeq(text, BreakAt(text, k - 1) + 1, BreakAt(text, k) - 1)]

startsWith(s, prefix) == Len(s) >= Len(prefix) /\ SubSeq(s, 1, Len(prefix)) = prefix

\* number of lines before the first Binding element
Offset(map) == IF IsSet(map.deviceInfo) THEN 3 ELSE 2

\* the lines of text are those of map, binding for binding and in order
OrderedRendering(text, map) ==
    LET ls == Lines(text) IN
    /\ Len(ls) = Offset(map) + Len(map.bindings) + 1
    /\ ls[1] = prologue
    /\ startsWith(ls[2], <<"<", "A", "r", "d", "o", "u", "r", "M", "I", "D", "I", "B", "i", "n", "d", "i", "n", "g", "s", " ">>)
    /\ IsSet(map.deviceInfo) => startsWith(ls[3], <<"<", "D", "e", "v", "i", "c", "e", "I", "n", "f", "o", " ">>)
    /\ \A i \in 1..Len(map.bindings) :
         ls[Offset(map) + i] = indent \o serializeBinding(map.bindings[i])
    /\ ls[Len(ls)] = closingElement

(* C7: serializeMidiMap emits exactly one Binding element per binding, in the
   order of the map's binding sequence, after the prologue, the root opening
   element and the optional device element, and before the closing element. *)
C7_BindingsInOrder ==
    IsSet(xml) => OrderedRendering(Get(xml), midiMap)

\* a rendered map with a device element and bindings of both kinds, note first
C7_Witness ==
    /\ IsSet(xml)
    /\ IsSet(midiMap.deviceInfo)
    /\ Len(midiMap.bindings) = 3
    /\ IsSet(midiMap.bindings[1].note)
    /\ IsSet(midiMap.bindings[2].ctl)
    /\ midiMap.bindings[2] # midiMap.bindings[3]

\* the named character reference of one character
charRef(c) ==
    IF c = <<"&">>[1] THEN <<"&", "a", "m", "p", ";">>
    ELSE IF c = <<"<">>[1] THEN <<"&", "l", "t", ";">>
    ELSE IF c = <<">">>[1] THEN <<"&", "g", "t", ";">>
    ELSE IF c = <<"\"">>[1] THEN <<"&", "q", "u", "o", "t", ";">>
    ELSE IF c = <<"'">>[1] THEN <<"&", "a", "p", "o", "s", ";">>
    ELSE <<c>>

\* s with every character replaced by its reference, in one pass
RECURSIVE Escaped(_)
Escaped(s) ==
    IF Len(s) <= 4
    THEN (IF Len(s) >= 1 THEN charRef(s[1]) ELSE <<>>)
         \o (IF Len(s) >= 2 THEN charRef(s[2]) ELSE <<>>)
         \o (IF Len(s) >= 3 THEN charRef(s[3]) ELSE <<>>)
         \o (IF Len(s) >= 4 THEN charRef(s[4]) ELSE <<>>)
    ELSE Escaped(SubSeq(s, 1, 4)) \o Escaped(SubSeq(s, 5, Len(s)))

Count(s, c) == Cardinality({i \in 1..Len(s) : s[i] = c})

EntityNames == {<<"a", "m", "p", ";">>, <<"l", "t", ";">>, <<"g", "t", ";">>, <<"q", "u", "o", "t", ";">>, <<"a", "p", "o", "s", ";">>}

\* every & of s begins one of the five named character references
AmpersandsEscaped(s) ==
    \A i \in 1..Len(s) :
        s[i] = <<"&">>[1] =>
            \E e \in EntityNames : SubSeq(s, i + 1, i + Len(e)) = e

\* number of attributes serializeBinding renders for b
AttributeCount(b) ==
    1 + Cardinality({k \in {"ctl", "note", "encR", "rpn", "nrpn", "rpn14", "nrpn14", "threshold"} :
                        IsSet(b[k])})
      + Cardinality({k \in {"function", "uri", "action", "encoder", "momentary"} :
                        IsSet(b[k]) /\ Get(b[k]) # <<>>})

Truthy(o) == IsSet(o) /\ Get(o) # <<>>

EscapedBindingLine(line, b) ==
    /\ Truthy(b.function) =>
         includes(line, <<" ", "f", "u", "n", "c", "t", "i", "o", "n", "=", "\"">> \o Escaped(Get(b.function)) \o <<"\"">>)
    /\ Truthy(b.uri) => includes(line, <<" ", "u", "r", "i", "=", "\"">> \o Escaped(Get(b.uri)) \o <<"\"">>)
    /\ Truthy(b.action) =>
         includes(line, <<" ", "a", "c", "t", "i", "o", "n", "=", "\"">> \o Escaped(Get(b.action)) \o <<"\"">>)
    /\ includes(line, <<"c", "h", "a", "n", "n", "e", "l", "=", "\"">> \o numberToString(b.channel) \o <<"\"">>)
    /\ IsSet(b.ctl) => includes(line, <<" ", "c", "t", "l", "=", "\"">> \o numberToString(Get(b.ctl)) \o <<"\"">>)
    /\ IsSet(b.note) => includes(line, <<" ", "n", "o", "t", "e", "=", "\"">> \o numberToString(Get(b.note)) \o <<"\"">>)
    /\ Count(line, <<"\"">>[1]) = 2 * AttributeCount(b)
    /\ Count(line, <<"<">>[1]) = 1
    /\ Count(line, <<">">>[1]) = 1
    /\ Count(line, <<"'">>[1]) = 0
    /\ AmpersandsEscaped(line)

EscapedRendering(text, map) ==
    LET ls == Lines(text) IN
    /\ ls[2] = <<"<", "A", "r", "d", "o", "u", "r", "M", "I", "D", "I", "B", "i", "n", "d", "i", "n", "g", "s", " ", "v", "e", "r", "s", "i", "o", "n", "=", "\"", "1", ".", "0", ".", "0", "\"", " ", "n", "a", "m", "e", "=", "\"">> \o Escaped(map.name) \o <<"\"", ">">>
    /\ Count(ls[2], <<"\"">>[1]) = 4
    /\ Count(ls[2], <<"<">>[1]) = 1
    /\ Count(ls[2], <<">">>[1]) = 1
    /\ AmpersandsEscaped(ls[2])
    /\ \A i \in 1..Len(map.bindings) :
         EscapedBindingLine(ls[Offset(map) + i], map.bindings[i])

(* C8: in the rendered text every free-text attribute value (map name,
   function, uri, action) has each & < > " ' replaced by its named character
   reference, produced references are not escaped again, no literal < > " '
   or bare & remains inside an attribute value, and numeric attributes are
   rendered as plain decimal digits. *)
C8_AttributeValuesEscaped ==
    IsSet(xml) => EscapedRendering(Get(xml), midiMap)

\* a rendered map whose name, function, uri and action all hold reserved characters
C8_Witness ==
    /\ IsSet(xml)
    /\ midiMap.name = <<"A", "&", "B", " ", "<", "\"", "x", "\"", ">", " ", "'", "y", "'">>
    /\ Len(midiMap.bindings) = 3
    /\ midiMap.bindings[1].function = Some(<<"a", "<", "b", "&", "c">>)
    /\ midiMap.bindings[2].uri = Some(parameterUri(<<"\"", "p", "\"", "&">>))
    /\ midiMap.bindings[3].action = Some(<<"i", "t", "'", "s", " ", ">", " ", "&", "l", "t", ";">>)

(* C19: parseMidiMap fails for every text it is given, by raising an error
   whose message says the operation is not implemented; it returns no map, and
   the failure is neither a parse result carrying PARSE_ERROR nor a list of
   schema violations. *)
C19_ParseMidiMapNotImplemented ==
    IsSet(parsed) =>
        /\ Get(parsed).outcome.threw
        /\ DOMAIN Get(parsed).outcome = {"threw", "message"}
        /\ includes(toLowerCase(Get(parsed).outcome.message), <<"n", "o", "t", " ", "y", "e", "t", " ", "i", "m", "p", "l", "e", "m", "e", "n", "t", "e", "d">>)
        /\ ~includes(Get(parsed).outcome.message, <<"P", "A", "R", "S", "E", "_", "E", "R", "R", "O", "R">>)

\* the text serializeMidiMap rendered for a map with bindings has been handed back
C19_Witness ==
    /\ IsSet(parsed)
    /\ IsSet(xml)
    /\ Get(parsed).text = Get(xml)
    /\ Len(midiMap.bindings) >= 1
----------------------------------------------------------------------------
(* convertCanonicalToArdour and the per-controller body of generateArdourMaps *)

MaxMappings == 2

\* x || d for an optional number
orDefault(o, d) == IF IsSet(o) /\ Get(o) # 0 THEN Get(o) ELSE d

\* mapping.midiInput.behavior?.mode === mode
modeIs(m, mode) ==
    /\ IsSet(m.midiInput.behavior)
    /\ Get(m.midiInput.behavior).mode = Some(mode)

\* the object literal passed to addCCBinding
ccOptions(m) ==
    Options(orDefault(m.midiInput.channel, 1), orDefault(m.midiInput.number, 0),
            convertToArdourBinding(m).function, convertToArdourBinding(m).uri,
            None, Some(modeIs(m, <<"r", "e", "l", "a", "t", "i", "v", "e">>)), Some(FALSE), None)

\* the object literal passed to addNoteBinding
noteOptions(m) ==
    Options(orDefault(m.midiInput.channel, 1), orDefault(m.midiInput.number, 0),
            convertToArdourBinding(m).function, convertToArdourBinding(m).uri,
            None, None, Some(modeIs(m, <<"m", "o", "m", "e", "n", "t", "a", "r", "y">>)), None)

convertMapping_SkipDisabled(bindings, m) ==
    IF ~m.enabled THEN bindings
    ELSE IF m.midiInput.type = <<"c", "c">> THEN addCCBinding(bindings, ccOptions(m))
    ELSE IF m.midiInput.type = <<"n", "o", "t", "e">> THEN addNoteBinding(bindings, noteOptions(m))
    ELSE bindings

\* one iteration of for (const mapping of map.mappings)
convertMapping(bindings, m) ==
    IF m.midiInput.type = <<"c", "c">> THEN addCCBinding(bindings, ccOptions(m))
    ELSE IF m.midiInput.type = <<"n", "o", "t", "e">> THEN addNoteBinding(bindings, noteOptions(m))
    ELSE bindings

Controller(manufacturer, model) == [manufacturer |-> manufacturer, model |-> model]

\* the properties of a canonical map the conversion reads
CanonicalMap(controller, pluginName, version, mappings) ==
    [metadata |-> [version |-> version], controller |-> controller,
     plugin |-> [name |-> pluginName], mappings |-> mappings]

\* `${map.controller.manufacturer}-${map.controller.model}`
controllerKey(map) == map.controller.manufacturer \o <<"-">> \o map.controller.model

\* `${manufacturer} ${model}`
controllerName(map) == map.controller.manufacturer \o <<" ">> \o map.controller.model

\* deviceInfo as generateArdourMaps computes it for a controller group
groupDeviceInfo(firstMap) ==
    IF includes(controllerKey(firstMap), <<"L", "a", "u", "n", "c", "h", " ", "C", "o", "n", "t", "r", "o", "l", " ", "X", "L">>)
    THEN Some(DeviceInfo(controllerName(firstMap),
                         <<[key |-> <<"b", "a", "n", "k", "-", "s", "i", "z", "e">>, value |-> Some(8)]>>))
    ELSE None

\* the argument of new MidiMapBuilder(...) at either entry point
builderOptions(j) ==
    IF j.entry = "generateArdourMaps"
    THEN BuilderOptions(controllerName(j.maps[1]), Some(<<"1", ".", "0", ".", "0">>), groupDeviceInfo(j.maps[1]))
    ELSE BuilderOptions(controllerName(j.maps[1]) \o <<" ", "f", "o", "r", " ">> \o j.maps[1].plugin.name,
                        Some(j.maps[1].metadata.version), None)

\* loop position at or after mapping e of map m, or past the loops
RECURSIVE position(_, _, _)
position(j, m, e) ==
    IF m > Len(j.maps) THEN [at |-> "build", m |-> 0, e |-> 0]
    ELSE IF e > Len(j.maps[m].mappings) THEN position(j, m + 1, 1)
    ELSE [at |-> "loop", m |-> m, e |-> e]

Behavior(mode) == [mode |-> mode]

ConvertEntrySamples ==
    {Entry(<<"e", "1">>, MidiInput(<<"c", "c">>, None, None, Some(Behavior(Some(<<"r", "e", "l", "a", "t", "i", "v", "e">>)))),
           PluginTarget(<<"p", "a", "r", "a", "m", "e", "t", "e", "r">>, <<"p", "1">>, None, None), TRUE),
     Entry(<<"e", "2">>, MidiInput(<<"c", "c">>, Some(2), Some(64), Some(Behavior(Some(<<"m", "o", "m", "e", "n", "t", "a", "r", "y">>)))),
           PluginTarget(<<"b", "y", "p", "a", "s", "s">>, <<"b", "y", "p">>, Some(<<"B", "y", "p", "a", "s", "s">>), Some(<<"G", "l", "o", "b", "a", "l">>)), TRUE),
     Entry(<<"e", "3">>, MidiInput(<<"n", "o", "t", "e">>, Some(1), Some(60), Some(Behavior(Some(<<"m", "o", "m", "e", "n", "t", "a", "r", "y">>)))),
           PluginTarget(<<"m", "a", "c", "r", "o">>, <<"m", "3">>, Some(<<"T", "o", "n", "e">>), Some(<<"E", "Q">>)), TRUE),
     Entry(<<"e", "4">>, MidiInput(<<"n", "o", "t", "e">>, None, None, None),
           PluginTarget(<<"p", "a", "r", "a", "m", "e", "t", "e", "r">>, <<"p", "1">>, None, None), TRUE),
     Entry(<<"e", "5">>, MidiInput(<<"p", "i", "t", "c", "h", "b", "e", "n", "d">>, Some(1), None, None),
           PluginTarget(<<"p", "a", "r", "a", "m", "e", "t", "e", "r">>, <<"p", "5">>, None, None), TRUE),
     Entry(<<"e", "6">>, MidiInput(<<"c", "c">>, Some(1), Some(7), Some(Behavior(None))),
           PluginTarget(<<"m", "a", "c", "r", "o">>, <<"p", "6">>, Some(<<"R", "a", "t", "e">>), Some(<<"M", "o", "d", "u", "l", "a", "t", "i", "o", "n">>)), FALSE)}

Controllers ==
    {Controller(<<"N", "o", "v", "a", "t", "i", "o", "n">>, <<"L", "a", "u", "n", "c", "h", " ", "C", "o", "n", "t", "r", "o", "l", " ", "X", "L">>), Controller(<<"A", "k", "a", "i">>, <<"M", "P", "K">>)}

\* further maps of the same controller group
SecondMappings ==
    {<<Entry(<<"s", "1">>, MidiInput(<<"c", "c">>, Some(3), Some(1), None),
             PluginTarget(<<"p", "r", "e", "s", "e", "t">>, <<"q", "1">>, Some(<<"L", "o", "w">>), Some(<<"E", "Q">>)), TRUE)>>,
     <<>>}

Jobs ==
    {[entry |-> "convertCanonicalToArdour",
      maps |-> <<CanonicalMap(c, <<"C", "o", "m", "p">>, <<"2", ".", "1", ".", "0">>, ms)>>] :
        c \in Controllers, ms \in SeqsUpTo(ConvertEntrySamples, MaxMappings)}
    \cup
    {[entry |-> "generateArdourMaps",
      maps |-> <<CanonicalMap(c, <<"C", "o", "m", "p">>, <<"2", ".", "1", ".", "0">>, ms)>>] :
        c \in Controllers, ms \in SeqsUpTo(ConvertEntrySamples, MaxMappings)}
    \cup
    {[entry |-> "generateArdourMaps",
      maps |-> <<CanonicalMap(c, <<"C", "o", "m", "p">>, <<"2", ".", "1", ".", "0">>, ms), CanonicalMap(c, <<"A", "m", "p">>, <<"1", ".", "0", ".", "0">>, ms2)>>] :
        c \in Controllers, ms \in SeqsUpTo(ConvertEntrySamples, MaxMappings),
        ms2 \in SecondMappings}

InitConvert ==
    /\ job \in Jobs
    /\ pc = [at |-> "start", m |-> 0, e |-> 0]
    /\ heap = <<>> /\ this = Idle /\ built = <<>> /\ count = None /\ nops = 0
    /\ xml = None
    /\ mapping = Idle /\ ardourBinding = Idle
    /\ midiMap = Idle
    /\ content = Idle /\ parsed = Idle /\ source = Idle

ConvertFrame == <<job, count, nops, mapping, ardourBinding, midiMap, content, parsed, source>>

\* const ardourBuilder = new MidiMapBuilder({...})
Construct ==
    /\ pc.at = "start"
    /\ heap' = MidiMapBuilder(heap, builderOptions(job)).heap
    /\ this' = MidiMapBuilder(heap, builderOptions(job)).this
    /\ pc' = position(job, 1, 1)
    /\ UNCHANGED <<built, xml, ConvertFrame>>

\* one iteration of the mapping loop
AddMapping ==
    /\ pc.at = "loop"
    /\ heap' = [heap EXCEPT ![this.bindings] =
                    convertMapping(@, job.maps[pc.m].mappings[pc.e])]
    /\ pc' = position(job, pc.m, pc.e + 1)
    /\ UNCHANGED <<this, built, xml, ConvertFrame>>

\* const ardourMap = ardourBuilder.build()
BuildMap ==
    /\ pc.at = "build"
    /\ heap' = build(heap, this).heap
    /\ built' = <<build(heap, this).map>>
    /\ pc' = [pc EXCEPT !.at = "serialize"]
    /\ UNCHANGED <<this, xml, ConvertFrame>>

\* serializer.serializeMidiMap(ardourMap)
SerializeMap ==
    /\ pc.at = "serialize"
    /\ xml' = Some(serializeMidiMap(deref(heap, built[1])))
    /\ pc' = [pc EXCEPT !.at = "done"]
    /\ UNCHANGED <<heap, this, built, ConvertFrame>>

NextConvert ==
    \/ Construct
    \/ AddMapping
    \/ BuildMap
    \/ SerializeMap

SpecConvert == InitConvert /\ [][NextConvert]_vars

\* all mapping entries of the job, in iteration order
RECURSIVE mappingsFrom(_, _)
mappingsFrom(j, m) ==
    IF m > Len(j.maps) THEN <<>> ELSE j.maps[m].mappings \o mappingsFrom(j, m + 1)

\* the entries a binding is appended for
BoundEntries(j) ==
    SelectSeq(mappingsFrom(j, 1), LAMBDA m : m.midiInput.type \in {<<"c", "c">>, <<"n", "o", "t", "e">>})

\* the bindings of the map the run built
BuiltBindings == deref(heap, built[1]).bindings

Paired == 1..(IF Len(BuiltBindings) < Len(BoundEntries(job))
              THEN Len(BuiltBindings) ELSE Len(BoundEntries(job)))

(* C3: the resolved reference passed to addCCBinding / addNoteBinding is
   carried into the binding build() returns: a uri when a uri was passed,
   a function when a function was passed. *)
C3_ReferenceCarried ==
    pc.at = "done" =>
        \A i \in Paired :
            /\ BuiltBindings[i].function = convertToArdourBinding(BoundEntries(job)[i]).function
            /\ BuiltBindings[i].uri = convertToArdourBinding(BoundEntries(job)[i]).uri

(* C6: a cc input with behavior mode 'relative' yields a binding with the
   encoder flag set, and a note input or a cc input with behavior mode
   'momentary' yields a binding with the momentary flag set. *)
C6_ModeFlagsPropagated ==
    pc.at = "done" =>
        \A i \in Paired :
            /\ (BoundEntries(job)[i].midiInput.type = <<"c", "c">>
                /\ modeIs(BoundEntries(job)[i], <<"r", "e", "l", "a", "t", "i", "v", "e">>))
                    => BuiltBindings[i].encoder = Some(<<"y", "e", "s">>)
            /\ modeIs(BoundEntries(job)[i], <<"m", "o", "m", "e", "n", "t", "a", "r", "y">>)
                    => BuiltBindings[i].momentary = Some(<<"y", "e", "s">>)

\* the descriptor the caller supplies at construction
SuppliedDeviceInfo == builderOptions(job).deviceInfo

(* C9: a device descriptor supplied when the builder is constructed is
   present in the built map and rendered as a DeviceInfo element between the
   root opening element and the first binding; none is rendered when none
   was supplied. *)
C9_DeviceInfoRendered ==
    pc.at = "done" =>
        /\ built[1].deviceInfo = SuppliedDeviceInfo
        /\ IsSet(SuppliedDeviceInfo) <=>
             (\E k \in 1..Len(Lines(Get(xml))) :
                 startsWith(Lines(Get(xml))[k], <<"<", "D", "e", "v", "i", "c", "e", "I", "n", "f", "o", " ">>))
        /\ IsSet(SuppliedDeviceInfo) => startsWith(Lines(Get(xml))[3], <<"<", "D", "e", "v", "i", "c", "e", "I", "n", "f", "o", " ">>)

\* the controller or note number of a binding, whichever is set
BoundNumber(b) == IF IsSet(b.ctl) THEN Get(b.ctl) ELSE Get(b.note)

(* C22: the built map has exactly one binding per mapping entry of type cc or
   note, in declaration order, and none for entries of other types; the
   binding is a cc binding for a cc entry and a note binding for a note entry,
   whether or not the entry is enabled, on the entry's channel or 1 when it
   has none and with the entry's number or 0 when it has none. *)
C22_OneBindingPerCcOrNote ==
    pc.at \in {"serialize", "done"} =>
        /\ Len(BuiltBindings) = Len(BoundEntries(job))
        /\ \A i \in 1..Len(BoundEntries(job)) :
             LET input == BoundEntries(job)[i].midiInput IN
             /\ IsSet(BuiltBindings[i].ctl) <=> (input.type = <<"c", "c">>)
             /\ IsSet(BuiltBindings[i].note) <=> (input.type = <<"n", "o", "t", "e">>)
             /\ BuiltBindings[i].channel = (IF IsSet(input.channel) THEN Get(input.channel) ELSE 1)
             /\ BoundNumber(BuiltBindings[i]) =
                    (IF IsSet(input.number) THEN Get(input.number) ELSE 0)

\* a map of a pitchbend entry and a disabled cc entry has been converted
C22_Witness ==
    /\ pc.at = "done"
    /\ Len(job.maps) = 1
    /\ Len(job.maps[1].mappings) = 2
    /\ job.maps[1].mappings[1].midiInput.type = <<"p", "i", "t", "c", "h", "b", "e", "n", "d">>
    /\ ~job.maps[1].mappings[2].enabled
    /\ Len(BuiltBindings) = 1
    /\ BuiltBindings[1].ctl = Some(7)
----------------------------------------------------------------------------
(* Decoded documents: the value parseYAML / JSON.parse returns *)

Undefined == [t |-> "undefined"]

Null == [t |-> "null"]

Str(s) == [t |-> "string", v |-> s]

Num(n) == [t |-> "number", v |-> n]

Bool(b) == [t |-> "boolean", v |-> b]

\* an object, as the function from its own keys to their values
Obj(f) == [t |-> "object", v |-> f]

Arr(s) == [t |-> "array", v |-> s]

\* input[key], undefined when the object has no such key
field(raw, key) == IF key \in DOMAIN raw.v THEN raw.v[key] ELSE Undefined

\* the object without one key
Without(raw, key) == Obj([k \in (DOMAIN raw.v) \ {key} |-> raw.v[k]])

\* the object with one key set
With(raw, key, value) ==
    Obj([k \in (DOMAIN raw.v) \cup {key} |-> IF k = key THEN value ELSE raw.v[k]])

----------------------------------------------------------------------------
(* zod schemas as data, and safeParse over them *)

ZString == [z |-> "string"]

ZNumber(min, max) == [z |-> "number", min |-> min, max |-> max]

ZBoolean == [z |-> "boolean"]

ZEnum(values) == [z |-> "enum", values |-> values]

ZArray(element) == [z |-> "array", element |-> element]

\* shape: the sequence of [key, schema] in declaration order
ZObject(shape) == [z |-> "object", shape |-> shape]

ZOptional(inner) == [z |-> "optional", inner |-> inner]

ZDefault(inner, value) == [z |-> "default", inner |-> inner, value |-> value]

Key(name) == [k |-> "key", name |-> name]

Index(i) == [k |-> "index", i |-> i]

Issue(path, code, message) == [path |-> path, code |-> code, message |-> message]

\* the single issue a type mismatch raises
invalidType(raw, path) ==
    <<Issue(path, <<"i", "n", "v", "a", "l", "i", "d", "_", "t", "y", "p", "e">>,
            IF raw.t = "undefined" THEN <<"R", "e", "q", "u", "i", "r", "e", "d">> ELSE <<"I", "n", "v", "a", "l", "i", "d", " ", "t", "y", "p", "e">>)>>

Outcome(issues, data) == [issues |-> issues, data |-> data]

\* the refinements .min() / .max() of a number schema
numberChecks(schema, n, path) ==
    (IF IsSet(schema.min) /\ n < Get(schema.min)
     THEN <<Issue(path, <<"t", "o", "o", "_", "s", "m", "a", "l", "l">>, <<"N", "u", "m", "b", "e", "r", " ", "t", "o", "o", " ", "s", "m", "a", "l", "l">>)>> ELSE <<>>)
    \o (IF IsSet(schema.max) /\ n > Get(schema.max)
        THEN <<Issue(path, <<"t", "o", "o", "_", "b", "i", "g">>, <<"N", "u", "m", "b", "e", "r", " ", "t", "o", "o", " ", "b", "i", "g">>)>> ELSE <<>>)

RECURSIVE zparse(_, _, _)

\* issues of the shape's keys from position i on, in declaration order
RECURSIVE shapeIssues(_, _, _, _)
shapeIssues(shape, raw, path, i) ==
    IF i > Len(shape) THEN <<>>
    ELSE zparse(shape[i].schema, field(raw, shape[i].key), Append(path, Key(shape[i].key))).issues
         \o shapeIssues(shape, raw, path, i + 1)

\* the output object: every shape key whose parsed value is defined (unknown keys stripped)
shapeData(shape, raw, path) ==
    LET keys == {shape[i].key : i \in 1..Len(shape)}
        schemaOf(key) == (CHOOSE i \in 1..Len(shape) : shape[i].key = key)
        value(key) == zparse(shape[schemaOf(key)].schema, field(raw, key),
                             Append(path, Key(key))).data
    IN  Obj([key \in {k \in keys : value(k).t # "undefined"} |-> value(key)])

RECURSIVE elementIssues(_, _, _, _)
elementIssues(element, items, path, i) ==
    IF i > Len(items) THEN <<>>
    ELSE zparse(element, items[i], Append(path, Index(i - 1))).issues
         \o elementIssues(element, items, path, i + 1)

zparse(schema, raw, path) ==
    IF schema.z = "optional" THEN
        IF raw.t = "undefined" THEN Outcome(<<>>, Undefined)
        ELSE zparse(schema.inner, raw, path)
    ELSE IF schema.z = "default" THEN
        zparse(schema.inner, IF raw.t = "undefined" THEN schema.value ELSE raw, path)
    ELSE IF schema.z = "string" THEN
        IF raw.t = "string" THEN Outcome(<<>>, raw)
        ELSE Outcome(invalidType(raw, path), Undefined)
    ELSE IF schema.z = "boolean" THEN
        IF raw.t = "boolean" THEN Outcome(<<>>, raw)
        ELSE Outcome(invalidType(raw, path), Undefined)
    ELSE IF schema.z = "number" THEN
        IF raw.t = "number" THEN Outcome(numberChecks(schema, raw.v, path), raw)
        ELSE Outcome(invalidType(raw, path), Undefined)
    ELSE IF schema.z = "enum" THEN
        IF raw.t # "string" THEN Outcome(invalidType(raw, path), Undefined)
        ELSE IF raw.v \in schema.values THEN Outcome(<<>>, raw)
        ELSE Outcome(<<Issue(path, <<"i", "n", "v", "a", "l", "i", "d", "_", "e", "n", "u", "m", "_", "v", "a", "l", "u", "e">>, <<"I", "n", "v", "a", "l", "i", "d", " ", "e", "n", "u", "m", " ", "v", "a", "l", "u", "e">>)>>, Undefined)
    ELSE IF schema.z = "array" THEN
        IF raw.t # "array" THEN Outcome(invalidType(raw, path), Undefined)
        ELSE Outcome(elementIssues(schema.element, raw.v, path, 1),
                     Arr([i \in 1..Len(raw.v) |->
                            zparse(schema.element, raw.v[i], Append(path, Index(i - 1))).data]))
    ELSE
        IF raw.t # "object" THEN Outcome(invalidType(raw, path), Undefined)
        ELSE Outcome(shapeIssues(schema.shape, raw, path, 1),
                     shapeData(schema.shape, raw, path))

\* schema.safeParse(rawData): success exactly when no issue was raised
safeParse(schema, raw) ==
    LET out == zparse(schema, raw, <<>>) IN
    IF out.issues = <<>>
    THEN [success |-> TRUE, data |-> out.data, errors |-> <<>>]
    ELSE [success |-> FALSE, data |-> Undefined, errors |-> out.issues]

----------------------------------------------------------------------------
(* schema.ts *)

P(key, schema) == [key |-> key, schema |-> schema]

CurveKinds == {<<"l", "i", "n", "e", "a", "r">>, <<"e", "x", "p", "o", "n", "e", "n", "t", "i", "a", "l">>, <<"l", "o", "g", "a", "r", "i", "t", "h", "m", "i", "c">>, <<"c", "u", "s", "t", "o", "m">>}

ValueRangeSchema ==
    ZObject(<<P("min", ZNumber(None, None)), P("max", ZNumber(None, None)),
              P("default", ZOptional(ZNumber(None, None)))>>)

InputBehaviorSchema ==
    ZObject(<<P("mode", ZOptional(ZEnum(BehaviorModes))),
              P("sensitivity", ZOptional(ZNumber(Some(0), Some(1)))),
              P("deadzone", ZOptional(ZNumber(Some(0), Some(1)))),
              P("curve", ZOptional(ZEnum(CurveKinds))),
              P("invert", ZOptional(ZBoolean))>>)

MappingBehaviorSchema ==
    ZObject(<<P("scaling", ZOptional(ZEnum(CurveKinds))),
              P("curve", ZOptional(ZArray(ZNumber(None, None)))),
              P("quantize", ZOptional(ZNumber(None, None))),
              P("smoothing", ZOptional(ZNumber(Some(0), Some(1)))),
              P("bipolar", ZOptional(ZBoolean))>>)

MidiInputDefinitionSchema ==
    ZObject(<<P("type", ZEnum(MidiInputTypes)),
              P("channel", ZOptional(ZNumber(Some(1), Some(16)))),
              P("number", ZOptional(ZNumber(Some(0), Some(127)))),
              P("range", ZOptional(ValueRangeSchema)),
              P("behavior", ZOptional(InputBehaviorSchema))>>)

PluginTargetDefinitionSchema ==
    ZObject(<<P("type", ZEnum(PluginTargetTypes)),
              P("identifier", ZString),
              P("name", ZOptional(ZString)),
              P("range", ZOptional(ValueRangeSchema)),
              P("units", ZOptional(ZString)),
              P("category", ZOptional(ZString))>>)

MidiMappingSchema ==
    ZObject(<<P("id", ZString),
              P("description", ZOptional(ZString)),
              P("midiInput", MidiInputDefinitionSchema),
              P("pluginTarget", PluginTargetDefinitionSchema),
              P("mapping", ZOptional(MappingBehaviorSchema)),
              P("enabled", ZDefault(ZOptional(ZBoolean), Bool(TRUE)))>>)

MapMetadataSchema ==
    ZObject(<<P("name", ZString),
              P("version", ZString),
              P("description", ZOptional(ZString)),
              P("author", ZOptional(ZString)),
              P("created", ZOptional(ZString)),
              P("updated", ZOptional(ZString)),
              P("tags", ZOptional(ZArray(ZString)))>>)

ControllerDefinitionSchema ==
    ZObject(<<P("manufacturer", ZString),
              P("model", ZString),
              P("version", ZOptional(ZString)),
              P("description", ZOptional(ZString)),
              P("midiChannel", ZOptional(ZNumber(Some(1), Some(16)))),
              P("notes", ZOptional(ZString))>>)

PluginFormats == {<<"V", "S", "T">>, <<"V", "S", "T", "3">>, <<"A", "U">>, <<"A", "A", "X">>, <<"L", "V", "2">>, <<"C", "L", "A", "P">>}

PluginDefinitionSchema ==
    ZObject(<<P("manufacturer", ZString),
              P("name", ZString),
              P("version", ZOptional(ZString)),
              P("format", ZOptional(ZEnum(PluginFormats))),
              P("description", ZOptional(ZString)),
              P("notes", ZOptional(ZString))>>)

CanonicalMidiMapSchema ==
    ZObject(<<P("metadata", MapMetadataSchema),
              P("controller", ControllerDefinitionSchema),
              P("plugin", PluginDefinitionSchema),
              P("mappings", ZArray(MidiMappingSchema))>>)


----------------------------------------------------------------------------
(* Scalars as they stand in a YAML or JSON text *)

\* Number.POSITIVE_INFINITY: above every finite number
Infinity == 2147483647

\* a scalar token: written plain, or between quotes
Plain(text) == [t |-> "scalar", style |-> "plain", text |-> text]

Quoted(text) == [t |-> "scalar", style |-> "quoted", text |-> text]

isDigits(text) ==
    /\ text # <<>>
    /\ \A i \in 1..Len(text) : \E k \in 1..Len(Digits) : Digits[k] = text[i]

\* the number a run of decimal digits denotes
RECURSIVE stringToNumber(_)
stringToNumber(text) ==
    IF text = <<>> THEN 0
    ELSE 10 * stringToNumber(SubSeq(text, 1, Len(text) - 1))
         + (CHOOSE k \in 1..Len(Digits) : Digits[k] = text[Len(text)]) - 1

\* the value a scalar token denotes: a quoted token is a string, a plain one is
\* resolved by its form (core schema of YAML; the JSON literals are among them)
decodeScalar(token) ==
    IF token.style = "quoted" THEN Str(token.text)
    ELSE IF token.text \in {<<"n", "u", "l", "l">>, <<"~">>, <<>>} THEN Null
    ELSE IF token.text = <<"t", "r", "u", "e">> THEN Bool(TRUE)
    ELSE IF token.text = <<"f", "a", "l", "s", "e">> THEN Bool(FALSE)
    ELSE IF token.text = <<".", "i", "n", "f">> THEN Num(Infinity)
    ELSE IF isDigits(token.text) THEN Num(stringToNumber(token.text))
    ELSE Str(token.text)

\* the document a tree of tokens denotes; values already decoded stand for themselves
RECURSIVE decode(_)
decode(node) ==
    IF node.t = "scalar" THEN decodeScalar(node)
    ELSE IF node.t = "object" THEN Obj([k \in DOMAIN node.v |-> decode(node.v[k])])
    ELSE IF node.t = "array" THEN Arr([i \in 1..Len(node.v) |-> decode(node.v[i])])
    ELSE node

\* stringify of the yaml package, for one scalar: a string is written plain unless
\* the plain form would be read back as something else
yamlScalar(raw) ==
    IF raw.t = "string"
    THEN (IF decodeScalar(Plain(raw.v)) = raw THEN Plain(raw.v) ELSE Quoted(raw.v))
    ELSE IF raw.t = "number"
    THEN (IF raw.v = Infinity THEN Plain(<<".", "i", "n", "f">>) ELSE Plain(numberToString(raw.v)))
    ELSE IF raw.t = "boolean"
    THEN (IF raw.v THEN Plain(<<"t", "r", "u", "e">>) ELSE Plain(<<"f", "a", "l", "s", "e">>))
    ELSE Plain(<<"n", "u", "l", "l">>)

\* JSON.stringify, for one scalar: a number that is not finite is written null
jsonScalar(raw) ==
    IF raw.t = "string" THEN Quoted(raw.v)
    ELSE IF raw.t = "number"
    THEN (IF raw.v = Infinity THEN Plain(<<"n", "u", "l", "l">>) ELSE Plain(numberToString(raw.v)))
    ELSE IF raw.t = "boolean"
    THEN (IF raw.v THEN Plain(<<"t", "r", "u", "e">>) ELSE Plain(<<"f", "a", "l", "s", "e">>))
    ELSE Plain(<<"n", "u", "l", "l">>)

\* the tree of tokens stringify writes for a value: objects keep their own
\* properties, arrays their elements in order
RECURSIVE yamlTree(_)
yamlTree(raw) ==
    IF raw.t = "object" THEN Obj([k \in DOMAIN raw.v |-> yamlTree(raw.v[k])])
    ELSE IF raw.t = "array" THEN Arr([i \in 1..Len(raw.v) |-> yamlTree(raw.v[i])])
    ELSE yamlScalar(raw)

RECURSIVE jsonTree(_)
jsonTree(raw) ==
    IF raw.t = "object" THEN Obj([k \in DOMAIN raw.v |-> jsonTree(raw.v[k])])
    ELSE IF raw.t = "array" THEN Arr([i \in 1..Len(raw.v) |-> jsonTree(raw.v[i])])
    ELSE jsonScalar(raw)
----------------------------------------------------------------------------
(* CanonicalMapParser (yaml-parser.ts) *)

\* the text of each property name
KeyText ==
    [metadata |-> <<"m", "e", "t", "a", "d", "a", "t", "a">>,
     controller |-> <<"c", "o", "n", "t", "r", "o", "l", "l", "e", "r">>,
     plugin |-> <<"p", "l", "u", "g", "i", "n">>,
     mappings |-> <<"m", "a", "p", "p", "i", "n", "g", "s">>,
     name |-> <<"n", "a", "m", "e">>,
     version |-> <<"v", "e", "r", "s", "i", "o", "n">>,
     description |-> <<"d", "e", "s", "c", "r", "i", "p", "t", "i", "o", "n">>,
     author |-> <<"a", "u", "t", "h", "o", "r">>,
     created |-> <<"c", "r", "e", "a", "t", "e", "d">>,
     updated |-> <<"u", "p", "d", "a", "t", "e", "d">>,
     tags |-> <<"t", "a", "g", "s">>,
     manufacturer |-> <<"m", "a", "n", "u", "f", "a", "c", "t", "u", "r", "e", "r">>,
     model |-> <<"m", "o", "d", "e", "l">>,
     midiChannel |-> <<"m", "i", "d", "i", "C", "h", "a", "n", "n", "e", "l">>,
     notes |-> <<"n", "o", "t", "e", "s">>,
     format |-> <<"f", "o", "r", "m", "a", "t">>,
     id |-> <<"i", "d">>,
     midiInput |-> <<"m", "i", "d", "i", "I", "n", "p", "u", "t">>,
     pluginTarget |-> <<"p", "l", "u", "g", "i", "n", "T", "a", "r", "g", "e", "t">>,
     mapping |-> <<"m", "a", "p", "p", "i", "n", "g">>,
     enabled |-> <<"e", "n", "a", "b", "l", "e", "d">>,
     type |-> <<"t", "y", "p", "e">>,
     channel |-> <<"c", "h", "a", "n", "n", "e", "l">>,
     number |-> <<"n", "u", "m", "b", "e", "r">>,
     range |-> <<"r", "a", "n", "g", "e">>,
     behavior |-> <<"b", "e", "h", "a", "v", "i", "o", "r">>,
     identifier |-> <<"i", "d", "e", "n", "t", "i", "f", "i", "e", "r">>,
     units |-> <<"u", "n", "i", "t", "s">>,
     category |-> <<"c", "a", "t", "e", "g", "o", "r", "y">>,
     min |-> <<"m", "i", "n">>,
     max |-> <<"m", "a", "x">>,
     default |-> <<"d", "e", "f", "a", "u", "l", "t">>,
     mode |-> <<"m", "o", "d", "e">>,
     sensitivity |-> <<"s", "e", "n", "s", "i", "t", "i", "v", "i", "t", "y">>,
     deadzone |-> <<"d", "e", "a", "d", "z", "o", "n", "e">>,
     curve |-> <<"c", "u", "r", "v", "e">>,
     invert |-> <<"i", "n", "v", "e", "r", "t">>,
     scaling |-> <<"s", "c", "a", "l", "i", "n", "g">>,
     quantize |-> <<"q", "u", "a", "n", "t", "i", "z", "e">>,
     smoothing |-> <<"s", "m", "o", "o", "t", "h", "i", "n", "g">>,
     bipolar |-> <<"b", "i", "p", "o", "l", "a", "r">>]

\* err.path.join('.')
pathText(path) ==
    join([i \in 1..Len(path) |->
            IF path[i].k = "key" THEN KeyText[path[i].name]
            ELSE numberToString(path[i].i)], <<".">>)

errorList_FirstOnly(issues) ==
    <<[path |-> pathText(issues[1].path), message |-> issues[1].message,
       code |-> issues[1].code]>>

\* result.error.errors.map(err => ({ path, message, code }))
errorList(issues) ==
    [i \in 1..Len(issues) |->
        [path |-> pathText(issues[i].path), message |-> issues[i].message,
         code |-> issues[i].code]]

\* a text: the syntax it is well-formed in, and the document it denotes.
\* Every JSON text is a YAML text denoting the same document.
Text(format, tree) == [format |-> format, tree |-> tree]

\* parseYAML(yamlContent) of the yaml package
parseYAML(text) ==
    IF text.format \in {"yaml", "json"}
    THEN [threw |-> FALSE, value |-> decode(text.tree), message |-> <<>>]
    ELSE [threw |-> TRUE, value |-> Undefined, message |-> <<"Y", "A", "M", "L", "P", "a", "r", "s", "e", "E", "r", "r", "o", "r">>]

\* JSON.parse(jsonContent)
parseJSON(text) ==
    IF text.format = "json"
    THEN [threw |-> FALSE, value |-> decode(text.tree), message |-> <<>>]
    ELSE [threw |-> TRUE, value |-> Undefined, message |-> <<"S", "y", "n", "t", "a", "x", "E", "r", "r", "o", "r">>]

ParseResult(map, valid, errors, warnings) ==
    [map |-> map,
     validation |-> [valid |-> valid, errors |-> errors, warnings |-> warnings]]

parseFromYAML_PartialMap(yamlContent) ==
    IF parseYAML(yamlContent).threw
    THEN ParseResult(None, FALSE,
            <<[path |-> <<"r", "o", "o", "t">>, message |-> parseYAML(yamlContent).message,
               code |-> <<"P", "A", "R", "S", "E", "_", "E", "R", "R", "O", "R">>]>>, <<>>)
    ELSE ParseResult(
            Some(zparse(CanonicalMidiMapSchema, parseYAML(yamlContent).value, <<>>).data),
            safeParse(CanonicalMidiMapSchema, parseYAML(yamlContent).value).success,
            errorList(safeParse(CanonicalMidiMapSchema, parseYAML(yamlContent).value).errors),
            <<>>)

parseFromYAML(yamlContent) ==
    IF parseYAML(yamlContent).threw
    THEN ParseResult(None, FALSE,
            <<[path |-> <<"r", "o", "o", "t">>, message |-> parseYAML(yamlContent).message,
               code |-> <<"P", "A", "R", "S", "E", "_", "E", "R", "R", "O", "R">>]>>, <<>>)
    ELSE IF safeParse(CanonicalMidiMapSchema, parseYAML(yamlContent).value).success
    THEN ParseResult(
            Some(safeParse(CanonicalMidiMapSchema, parseYAML(yamlContent).value).data),
            TRUE, <<>>, <<>>)
    ELSE ParseResult(None, FALSE,
            errorList(safeParse(CanonicalMidiMapSchema, parseYAML(yamlContent).value).errors),
            <<>>)

parseFromJSON_NoShortCircuit(jsonContent) ==
    IF safeParse(CanonicalMidiMapSchema, parseJSON(jsonContent).value).success
    THEN ParseResult(
            Some(safeParse(CanonicalMidiMapSchema, parseJSON(jsonContent).value).data),
            TRUE, <<>>, <<>>)
    ELSE ParseResult(None, FALSE,
            errorList(safeParse(CanonicalMidiMapSchema, parseJSON(jsonContent).value).errors),
            <<>>)

parseFromJSON(jsonContent) ==
    IF parseJSON(jsonContent).threw
    THEN ParseResult(None, FALSE,
            <<[path |-> <<"r", "o", "o", "t">>, message |-> parseJSON(jsonContent).message,
               code |-> <<"P", "A", "R", "S", "E", "_", "E", "R", "R", "O", "R">>]>>, <<>>)
    ELSE IF safeParse(CanonicalMidiMapSchema, parseJSON(jsonContent).value).success
    THEN ParseResult(
            Some(safeParse(CanonicalMidiMapSchema, parseJSON(jsonContent).value).data),
            TRUE, <<>>, <<>>)
    ELSE ParseResult(None, FALSE,
            errorList(safeParse(CanonicalMidiMapSchema, parseJSON(jsonContent).value).errors),
            <<>>)

\* stringifyYAML(map, { indent: 2, lineWidth: 100, minContentWidth: 20 })
serializeToYAML(map) == Text("yaml", yamlTree(map))

\* JSON.stringify(map, null, pretty ? 2 : 0)
serializeToJSON(map) == Text("json", jsonTree(map))
----------------------------------------------------------------------------
(* parseFromYAML / parseFromJSON applied to texts *)

\* an object of the given keys, leaving out those whose value is undefined
Document(f) == Obj([k \in {x \in DOMAIN f : f[x].t # "undefined"} |-> f[k]])

ValidMetadata ==
    Obj([name |-> Str(<<"M", "a", "p">>), version |-> Str(<<"1", ".", "0", ".", "0">>),
         description |-> Str(<<"d">>), author |-> Str(<<"m", "e">>)])

MetadataSamples ==
    {ValidMetadata,
     Without(ValidMetadata, "description"),
     Without(Without(ValidMetadata, "name"), "version"),
     With(ValidMetadata, "version", Num(1)),
     Num(3),
     Undefined}

ValidController == Obj([manufacturer |-> Str(<<"A", "k", "a", "i">>), model |-> Str(<<"M", "P", "K">>)])

ControllerSamples ==
    {ValidController,
     Without(ValidController, "model"),
     With(ValidController, "midiChannel", Num(17)),
     Undefined}

ValidPlugin == Obj([manufacturer |-> Str(<<"T", "A", "L">>), name |-> Str(<<"C", "o", "m", "p">>)])

PluginSamples ==
    {ValidPlugin,
     With(ValidPlugin, "format", Str(<<"V", "S", "T", "3">>)),
     With(ValidPlugin, "format", Str(<<"D", "L", "L">>))}

RawEntry(id, input, target) ==
    Obj([id |-> id, midiInput |-> input, pluginTarget |-> target])

ValidTarget == Obj([type |-> Str(<<"p", "a", "r", "a", "m", "e", "t", "e", "r">>), identifier |-> Str(<<"p", "1">>)])

Entry1 ==
    RawEntry(Str(<<"m", "1">>),
             Obj([type |-> Str(<<"c", "c">>), channel |-> Num(1), number |-> Num(64)]),
             ValidTarget)

Entry2 ==
    With(RawEntry(Str(<<"m", "2">>),
                  Obj([type |-> Str(<<"c", "c">>), number |-> Num(64),
                       behavior |-> Obj([mode |-> Str(<<"r", "e", "l", "a", "t", "i", "v", "e">>)])]),
                  ValidTarget),
         "enabled", Bool(FALSE))

EntryOutOfRange ==
    RawEntry(Str(<<"m", "3">>),
             Obj([type |-> Str(<<"n", "o", "t", "e">>), channel |-> Num(17), number |-> Num(128)]),
             ValidTarget)

EntryMissingId ==
    Without(RawEntry(Str(<<"m", "4">>), Obj([type |-> Str(<<"n", "o", "t", "e">>)]),
                     Obj([type |-> Str(<<"k", "n", "o", "b">>), identifier |-> Str(<<"p", "4">>)])),
            "id")

MappingsSamples ==
    {Arr(<<>>),
     Arr(<<Entry1>>),
     Arr(<<Entry1, Entry2>>),
     Arr(<<EntryOutOfRange>>),
     Arr(<<Entry1, EntryMissingId>>),
     Str(<<"n", "o", "n", "e">>),
     Undefined}

DocumentSamples ==
    {Document([metadata |-> md, controller |-> c, plugin |-> p, mappings |-> ms]) :
        md \in MetadataSamples, c \in ControllerSamples, p \in PluginSamples,
        ms \in MappingsSamples}
    \cup {Null, Str(<<"h", "e", "l", "l", "o">>), Arr(<<>>)}

Texts ==
    {Text(f, d) : f \in {"yaml", "json"}, d \in DocumentSamples}
    \cup {Text("garbage", Undefined)}

InitParse ==
    /\ content \in Texts
    /\ parsed = None
    /\ mapping = Idle /\ ardourBinding = Idle
    /\ heap = Idle /\ this = Idle /\ built = Idle /\ count = Idle /\ nops = 0
    /\ job = Idle /\ pc = Idle
    /\ midiMap = Idle /\ xml = Idle /\ source = Idle

ParseFrame == <<content, mapping, ardourBinding, heap, this, built, count, nops, job,
                pc, midiMap, xml, source>>

ParseFromYAML ==
    /\ parsed' = Some(parseFromYAML(content))
    /\ UNCHANGED ParseFrame

ParseFromJSON ==
    /\ parsed' = Some(parseFromJSON(content))
    /\ UNCHANGED ParseFrame

NextParse ==
    \/ ParseFromYAML
    \/ ParseFromJSON

SpecParse == InitParse /\ [][NextParse]_vars

\* every property of the value satisfies the schema as it stands
FullyValid(map) == zparse(CanonicalMidiMapSchema, map, <<>>).issues = <<>>

(* C10: the result of parseFromYAML / parseFromJSON has a map if and only if
   validation.valid is true, if and only if validation.errors is empty; a map
   that is present is fully valid. *)
C10_MapIffValidIffNoErrors ==
    IsSet(parsed) =>
        /\ IsSet(Get(parsed).map) <=> Get(parsed).validation.valid
        /\ Get(parsed).validation.valid <=> (Get(parsed).validation.errors = <<>>)
        /\ IsSet(Get(parsed).map) => FullyValid(Get(Get(parsed).map))

\* a well-formed text whose document violates the schema in several fields
C10_Witness ==
    /\ IsSet(parsed)
    /\ content.format = "yaml"
    /\ content.tree.t = "object"
    /\ Len(Get(parsed).validation.errors) >= 2
    /\ ~IsSet(Get(parsed).map)

\* the result of a decode failure: no map, invalid, one document-level PARSE_ERROR
IsDecodeFailure(r) ==
    /\ ~IsSet(r.map)
    /\ ~r.validation.valid
    /\ Len(r.validation.errors) = 1
    /\ r.validation.errors[1].path = <<"r", "o", "o", "t">>
    /\ r.validation.errors[1].code = <<"P", "A", "R", "S", "E", "_", "E", "R", "R", "O", "R">>

HasParseError(r) ==
    \E i \in 1..Len(r.validation.errors) : r.validation.errors[i].code = <<"P", "A", "R", "S", "E", "_", "E", "R", "R", "O", "R">>

(* C11: when decoding of the text fails, parseFromYAML / parseFromJSON return
   no map, valid false and exactly one error, with path 'root' and code
   PARSE_ERROR; no result of a text that decodes carries that code. *)
C11_DecodeFailureShortCircuits ==
    [][/\ ParseFromYAML =>
            IF parseYAML(content).threw THEN IsDecodeFailure(Get(parsed'))
            ELSE ~HasParseError(Get(parsed'))
       /\ ParseFromJSON =>
            IF parseJSON(content).threw THEN IsDecodeFailure(Get(parsed'))
            ELSE ~HasParseError(Get(parsed'))]_vars

\* a text that is well-formed YAML but not JSON has been refused by JSON.parse
C11_Witness ==
    /\ IsSet(parsed)
    /\ content.format = "yaml"
    /\ content.tree.t = "object"
    /\ HasParseError(Get(parsed))


----------------------------------------------------------------------------
(* CanonicalMapParser.validate / generateWarnings (yaml-parser.ts) *)

\* a value that `||` and `!` treat as false
falsy(raw) ==
    \/ raw.t \in {"undefined", "null"}
    \/ raw.t = "string" /\ raw.v = <<>>
    \/ raw.t = "number" /\ raw.v = 0
    \/ raw.t = "boolean" /\ ~raw.v

\* value || fallback
logicalOr(raw, fallback) == IF falsy(raw) THEN fallback ELSE raw

inputKey_NoType(entry) ==
    numberToString(logicalOr(field(field(entry, "midiInput"), "channel"), Num(1)).v)
    \o <<"-">>
    \o numberToString(logicalOr(field(field(entry, "midiInput"), "number"), Num(0)).v)

inputKey_ChannelDefault0(entry) ==
    field(field(entry, "midiInput"), "type").v
    \o <<"-">>
    \o numberToString(logicalOr(field(field(entry, "midiInput"), "channel"), Num(0)).v)
    \o <<"-">>
    \o numberToString(logicalOr(field(field(entry, "midiInput"), "number"), Num(0)).v)

\* `${mapping.midiInput.type}-${mapping.midiInput.channel || 1}-${mapping.midiInput.number || 0}`
inputKey(entry) ==
    field(field(entry, "midiInput"), "type").v
    \o <<"-">>
    \o numberToString(logicalOr(field(field(entry, "midiInput"), "channel"), Num(1)).v)
    \o <<"-">>
    \o numberToString(logicalOr(field(field(entry, "midiInput"), "number"), Num(0)).v)

\* midiInputs.has(key), over the entries of the Map in insertion order
has(midiInputs, key) == \E i \in 1..Len(midiInputs) : midiInputs[i].key = key

\* one step of map.mappings.forEach: create the key's list when new, then push the id
record(midiInputs, entry) ==
    LET key == inputKey(entry)
        entries == IF has(midiInputs, key) THEN midiInputs
                   ELSE Append(midiInputs, [key |-> key, mappingIds |-> <<>>])
    IN  [i \in 1..Len(entries) |->
            IF entries[i].key = key
            THEN [key |-> key,
                  mappingIds |-> Append(entries[i].mappingIds, field(entry, "id").v)]
            ELSE entries[i]]

\* the Map after map.mappings.forEach has visited the first n mappings
RECURSIVE midiInputsAfter(_, _)
midiInputsAfter(mappings, n) ==
    IF n = 0 THEN <<>>
    ELSE record(midiInputsAfter(mappings, n - 1), mappings[n])

Warning(path, message, code) == [path |-> path, message |-> message, code |-> code]

duplicateWarning(entry) ==
    Warning(<<"m", "a", "p", "p", "i", "n", "g", "s">>,
            <<"D", "u", "p", "l", "i", "c", "a", "t", "e", " ", "M", "I", "D", "I", " ", "i", "n", "p", "u", "t", " ", "(">> \o entry.key \o <<")", " ", "u", "s", "e", "d", " ", "b", "y", " ", "m", "a", "p", "p", "i", "n", "g", "s", ":", " ">>
                \o join(entry.mappingIds, <<",", " ">>),
            <<"D", "U", "P", "L", "I", "C", "A", "T", "E", "_", "M", "I", "D", "I", "_", "I", "N", "P", "U", "T">>)

\* midiInputs.forEach: one warning per key whose list holds more than one id
RECURSIVE duplicateWarnings(_, _)
duplicateWarnings(midiInputs, i) ==
    IF i > Len(midiInputs) THEN <<>>
    ELSE (IF Len(midiInputs[i].mappingIds) > 1
          THEN <<duplicateWarning(midiInputs[i])>> ELSE <<>>)
         \o duplicateWarnings(midiInputs, i + 1)

metadataWarnings(metadata) ==
    (IF falsy(field(metadata, "description"))
     THEN <<Warning(<<"m", "e", "t", "a", "d", "a", "t", "a", ".", "d", "e", "s", "c", "r", "i", "p", "t", "i", "o", "n">>,
                    <<"C", "o", "n", "s", "i", "d", "e", "r", " ", "a", "d", "d", "i", "n", "g", " ", "a", " ", "d", "e", "s", "c", "r", "i", "p", "t", "i", "o", "n", " ", "f", "o", "r", " ", "b", "e", "t", "t", "e", "r", " ", "d", "o", "c", "u", "m", "e", "n", "t", "a", "t", "i", "o", "n">>,
                    <<"M", "I", "S", "S", "I", "N", "G", "_", "D", "E", "S", "C", "R", "I", "P", "T", "I", "O", "N">>)>>
     ELSE <<>>)
    \o (IF falsy(field(metadata, "author"))
        THEN <<Warning(<<"m", "e", "t", "a", "d", "a", "t", "a", ".", "a", "u", "t", "h", "o", "r">>,
                       <<"C", "o", "n", "s", "i", "d", "e", "r", " ", "a", "d", "d", "i", "n", "g", " ", "a", "n", " ", "a", "u", "t", "h", "o", "r", " ", "f", "o", "r", " ", "b", "e", "t", "t", "e", "r", " ", "t", "r", "a", "c", "k", "i", "n", "g">>,
                       <<"M", "I", "S", "S", "I", "N", "G", "_", "A", "U", "T", "H", "O", "R">>)>>
        ELSE <<>>)

generateWarnings(map) ==
    duplicateWarnings(midiInputsAfter(field(map, "mappings").v,
                                      Len(field(map, "mappings").v)), 1)
    \o metadataWarnings(field(map, "metadata"))

ValidationResult(valid, errors, warnings) ==
    [valid |-> valid, errors |-> errors, warnings |-> warnings]

validate(map) ==
    IF safeParse(CanonicalMidiMapSchema, map).success
    THEN ValidationResult(TRUE, <<>>,
            generateWarnings(safeParse(CanonicalMidiMapSchema, map).data))
    ELSE ValidationResult(FALSE,
            errorList(safeParse(CanonicalMidiMapSchema, map).errors), <<>>)

----------------------------------------------------------------------------
(* validate applied to decoded documents *)

MaxEntries == 3

InputEntry(id, input) == RawEntry(Str(id), Obj(input), ValidTarget)

\* cc 64 on channel 1, cc 64 on the default channel, note 64 on channel 1,
\* cc on channel 2 with the default number, cc 0 on channel 2
InputEntrySamples ==
    {InputEntry(<<"a">>, [type |-> Str(<<"c", "c">>), channel |-> Num(1), number |-> Num(64)]),
     InputEntry(<<"b">>, [type |-> Str(<<"c", "c">>), number |-> Num(64)]),
     InputEntry(<<"c">>, [type |-> Str(<<"n", "o", "t", "e">>), channel |-> Num(1), number |-> Num(64)]),
     InputEntry(<<"d">>, [type |-> Str(<<"c", "c">>), channel |-> Num(2)]),
     InputEntry(<<"e">>, [type |-> Str(<<"c", "c">>), channel |-> Num(2), number |-> Num(0)])}

ValidateMetadataSamples ==
    {ValidMetadata,
     Without(ValidMetadata, "description"),
     With(Without(ValidMetadata, "author"), "description", Str(<<>>)),
     Without(ValidMetadata, "name")}

ValidateInputs ==
    {Document([metadata |-> md, controller |-> ValidController, plugin |-> ValidPlugin,
               mappings |-> Arr(ms)]) :
        md \in ValidateMetadataSamples, ms \in SeqsUpTo(InputEntrySamples, MaxEntries)}

InitValidate ==
    /\ content \in ValidateInputs
    /\ parsed = None
    /\ mapping = Idle /\ ardourBinding = Idle
    /\ heap = Idle /\ this = Idle /\ built = Idle /\ count = Idle /\ nops = 0
    /\ job = Idle /\ pc = Idle
    /\ midiMap = Idle /\ xml = Idle /\ source = Idle

Validate ==
    /\ parsed = None
    /\ parsed' = Some(validate(content))
    /\ UNCHANGED ParseFrame

NextValidate == Validate

SpecValidate == InitValidate /\ [][NextValidate]_vars

(* C12: a document that parses to a valid map comes back from parseFromYAML /
   parseFromJSON with valid true and with the warnings its advisory conditions
   give (duplicate MIDI inputs, missing description or author). *)
C12_WarningsDeliveredWithMap ==
    (IsSet(parsed) /\ IsSet(Get(parsed).map)) =>
        /\ Get(parsed).validation.valid
        /\ Get(parsed).validation.warnings = generateWarnings(Get(Get(parsed).map))

----------------------------------------------------------------------------
(* Groups of mapping entries by MIDI input *)

\* the validated map of a document
Validated(raw) == safeParse(CanonicalMidiMapSchema, raw).data

MappingsOf(map) == field(map, "mappings").v

\* (input type, channel or 1 when absent, number or 0 when absent)
Triple(entry) ==
    LET input == field(entry, "midiInput") IN
    <<field(input, "type").v,
      IF field(input, "channel").t = "number" THEN field(input, "channel").v ELSE 1,
      IF field(input, "number").t = "number" THEN field(input, "number").v ELSE 0>>

\* the ids of the entries of one group, in declaration order
RECURSIVE GroupIds(_, _, _)
GroupIds(mappings, triple, i) ==
    IF i > Len(mappings) THEN <<>>
    ELSE (IF Triple(mappings[i]) = triple THEN <<field(mappings[i], "id").v>> ELSE <<>>)
         \o GroupIds(mappings, triple, i + 1)

Groups(mappings) == {Triple(mappings[i]) : i \in 1..Len(mappings)}

SharedGroups(mappings) == {g \in Groups(mappings) : Len(GroupIds(mappings, g, 1)) > 1}

TripleText(triple) ==
    triple[1] \o <<"-">> \o numberToString(triple[2]) \o <<"-">> \o numberToString(triple[3])

DuplicateMessage(mappings, triple) ==
    <<"D", "u", "p", "l", "i", "c", "a", "t", "e", " ", "M", "I", "D", "I", " ", "i", "n", "p", "u", "t", " ", "(">> \o TripleText(triple) \o <<")", " ", "u", "s", "e", "d", " ", "b", "y", " ", "m", "a", "p", "p", "i", "n", "g", "s", ":", " ">>
    \o join(GroupIds(mappings, triple, 1), <<",", " ">>)

\* the positions of the duplicate-input warnings in a warning list
DuplicatePositions(warnings) ==
    {i \in 1..Len(warnings) : warnings[i].code = <<"D", "U", "P", "L", "I", "C", "A", "T", "E", "_", "M", "I", "D", "I", "_", "I", "N", "P", "U", "T">>}

(* C13: for a valid map, validate gives exactly one duplicate-input warning for
   every group of entries with the same (type, channel or 1, number or 0) that
   has more than one member, none for a group of one, and each warning names
   the ids of its group in declaration order. *)
C13_OneWarningPerSharedInput ==
    (IsSet(parsed) /\ Get(parsed).valid) =>
        LET mappings == MappingsOf(Validated(content))
            warnings == Get(parsed).warnings
        IN  /\ Cardinality(DuplicatePositions(warnings)) = Cardinality(SharedGroups(mappings))
            /\ \A g \in SharedGroups(mappings) :
                 Cardinality({i \in DuplicatePositions(warnings) :
                                warnings[i].message = DuplicateMessage(mappings, g)}) = 1

\* three entries in two groups: one shared by two entries, one of a single entry
C13_Witness ==
    /\ IsSet(parsed)
    /\ Get(parsed).valid
    /\ Len(MappingsOf(Validated(content))) = 3
    /\ Cardinality(Groups(MappingsOf(Validated(content)))) = 2
    /\ Cardinality(SharedGroups(MappingsOf(Validated(content)))) = 1
    /\ Cardinality(DuplicatePositions(Get(parsed).warnings)) = 1

\* a valid map of exactly two entries, both on (cc, channel 1, number 64)
TwoEntriesOnCC64(raw) ==
    /\ safeParse(CanonicalMidiMapSchema, raw).success
    /\ Len(MappingsOf(Validated(raw))) = 2
    /\ \A i \in 1..2 : Triple(MappingsOf(Validated(raw))[i]) = <<<<"c", "c">>, 1, 64>>

ListsBothIds(message, mappings) ==
    \A i \in 1..2 : includes(message, field(mappings[i], "id").v)

(* C14 as stated: validating a map with two entries sharing (cc, channel 1,
   number 64) gives a warning list of exactly one warning, whose message lists
   both ids. *)
C14_ExactlyOneWarning ==
    (IsSet(parsed) /\ TwoEntriesOnCC64(content)) =>
        /\ Len(Get(parsed).warnings) = 1
        /\ ListsBothIds(Get(parsed).warnings[1].message, MappingsOf(Validated(content)))

(* C14 amended: validating a map with two entries sharing (cc, channel 1,
   number 64) gives exactly one duplicate-input warning, whose message lists
   both ids; it is the only warning when the metadata has a description and an
   author, and is followed by the missing-metadata warnings otherwise. *)
C14_OneDuplicateWarning ==
    (IsSet(parsed) /\ TwoEntriesOnCC64(content)) =>
        LET warnings == Get(parsed).warnings
            metadata == field(Validated(content), "metadata")
        IN  /\ Cardinality(DuplicatePositions(warnings)) = 1
            /\ warnings[1].code = <<"D", "U", "P", "L", "I", "C", "A", "T", "E", "_", "M", "I", "D", "I", "_", "I", "N", "P", "U", "T">>
            /\ ListsBothIds(warnings[1].message, MappingsOf(Validated(content)))
            /\ (field(metadata, "description").t = "string"
                /\ field(metadata, "description").v # <<>>
                /\ field(metadata, "author").t = "string"
                /\ field(metadata, "author").v # <<>>) <=> (Len(warnings) = 1)

\* entries "a" (channel 1) and "b" (default channel) with complete metadata
C14_Witness ==
    /\ IsSet(parsed)
    /\ TwoEntriesOnCC64(content)
    /\ field(MappingsOf(Validated(content))[1], "id") # field(MappingsOf(Validated(content))[2], "id")
    /\ Len(Get(parsed).warnings) = 1

----------------------------------------------------------------------------
(* Required fields that a document leaves out *)

\* the paths of the keys among `keys` that the object at `path` does not have
MissingIn(raw, path, keys) ==
    IF raw.t = "object"
    THEN {Append(path, Key(k)) : k \in {x \in keys : x \notin DOMAIN raw.v}}
    ELSE {}

MissingInEntry(entry, path) ==
    MissingIn(entry, path, {"id", "midiInput", "pluginTarget"})
    \cup (IF entry.t = "object"
          THEN MissingIn(field(entry, "midiInput"), Append(path, Key("midiInput")), {"type"})
               \cup MissingIn(field(entry, "pluginTarget"), Append(path, Key("pluginTarget")),
                              {"type", "identifier"})
          ELSE {})

\* every required field of the canonical map that is absent while its parent is present
MissingFields(doc) ==
    MissingIn(doc, <<>>, {"metadata", "controller", "plugin", "mappings"})
    \cup (IF doc.t # "object" THEN {}
          ELSE MissingIn(field(doc, "metadata"), <<Key("metadata")>>, {"name", "version"})
               \cup MissingIn(field(doc, "controller"), <<Key("controller")>>,
                              {"manufacturer", "model"})
               \cup MissingIn(field(doc, "plugin"), <<Key("plugin")>>, {"manufacturer", "name"})
               \cup (IF field(doc, "mappings").t # "array" THEN {}
                     ELSE UNION {MissingInEntry(field(doc, "mappings").v[i],
                                                <<Key("mappings"), Index(i - 1)>>) :
                                    i \in 1..Len(field(doc, "mappings").v)}))

\* the positions of the errors that report an absent value
RequiredPositions(errors) == {i \in 1..Len(errors) : errors[i].message = <<"R", "e", "q", "u", "i", "r", "e", "d">>}

(* C15: a document that decodes and leaves out two or more required fields
   yields no map and one error per missing field, each with the field's
   dot-joined path and code invalid_type; no missing field is left unreported
   and none is reported twice. *)
C15_EveryMissingFieldReported ==
    (/\ IsSet(parsed)
     /\ ~HasParseError(Get(parsed))
     /\ Cardinality(MissingFields(content.tree)) >= 2) =>
        LET errors == Get(parsed).validation.errors IN
        /\ ~IsSet(Get(parsed).map)
        /\ Cardinality(RequiredPositions(errors)) = Cardinality(MissingFields(content.tree))
        /\ \A p \in MissingFields(content.tree) :
             Cardinality({i \in 1..Len(errors) :
                            /\ errors[i].path = pathText(p)
                            /\ errors[i].code = <<"i", "n", "v", "a", "l", "i", "d", "_", "t", "y", "p", "e">>}) = 1

\* two fields missing in different objects, and nothing else wrong
C15_Witness ==
    /\ IsSet(parsed)
    /\ ~HasParseError(Get(parsed))
    /\ Cardinality(MissingFields(content.tree)) = 2
    /\ \E p, q \in MissingFields(content.tree) : p[1] # q[1]
    /\ Len(Get(parsed).validation.errors) = 2

----------------------------------------------------------------------------
(* serializeToYAML / serializeToJSON followed by parseFromYAML / parseFromJSON *)

\* an entry whose input range is open above, as `max: .inf` in a YAML document
EntryOpenRange ==
    RawEntry(Str(<<"m", "5">>),
             Obj([type |-> Str(<<"c", "c">>), number |-> Num(7),
                  range |-> Obj([min |-> Num(0), max |-> Num(Infinity)])]),
             ValidTarget)

\* a plugin whose name reads as a number
NumericNamePlugin == Obj([manufacturer |-> Str(<<"U", "A">>), name |-> Str(<<"1", "1", "7", "6">>)])

RoundTripDocuments ==
    {Document([metadata |-> md, controller |-> ValidController, plugin |-> p,
               mappings |-> Arr(ms)]) :
        md \in {ValidMetadata, Without(ValidMetadata, "description"),
                With(ValidMetadata, "description", Str(<<>>))},
        p \in {ValidPlugin, With(ValidPlugin, "format", Str(<<"V", "S", "T", "3">>)), NumericNamePlugin},
        ms \in {<<>>, <<Entry1>>, <<Entry1, Entry2>>, <<EntryOpenRange>>,
                <<Entry2, EntryOpenRange>>}}

\* the valid canonical maps: what the validator gives for the documents
RoundTripSources ==
    {safeParse(CanonicalMidiMapSchema, d).data :
        d \in {x \in RoundTripDocuments : safeParse(CanonicalMidiMapSchema, x).success}}

InitRoundTrip ==
    /\ source \in RoundTripSources
    /\ content = None
    /\ parsed = None
    /\ mapping = Idle /\ ardourBinding = Idle
    /\ heap = Idle /\ this = Idle /\ built = Idle /\ count = Idle /\ nops = 0
    /\ job = Idle /\ pc = Idle
    /\ midiMap = Idle /\ xml = Idle

RoundTripFrame == <<source, mapping, ardourBinding, heap, this, built, count, nops, job,
                    pc, midiMap, xml>>

\* a text has been written
Serialized == DOMAIN content # {}

SerializeToYAML ==
    /\ ~Serialized
    /\ content' = serializeToYAML(source)
    /\ UNCHANGED <<parsed, RoundTripFrame>>

SerializeToJSON ==
    /\ ~Serialized
    /\ content' = serializeToJSON(source)
    /\ UNCHANGED <<parsed, RoundTripFrame>>

ReparseYAML ==
    /\ Serialized
    /\ content.format = "yaml"
    /\ parsed = None
    /\ ParseFromYAML

ReparseJSON ==
    /\ Serialized
    /\ content.format = "json"
    /\ parsed = None
    /\ ParseFromJSON

NextRoundTrip ==
    \/ SerializeToYAML
    \/ SerializeToJSON
    \/ ReparseYAML
    \/ ReparseJSON

SpecRoundTrip == InitRoundTrip /\ [][NextRoundTrip]_vars

(* C16: for every valid canonical map m, the text serializeToYAML(m) parsed by
   parseFromYAML, and the text serializeToJSON(m) parsed by parseFromJSON,
   validates and yields a map equal to m. *)
C16_RoundTrip ==
    IsSet(parsed) =>
        /\ Get(parsed).validation.valid
        /\ Get(parsed).map = Some(source)
====
